---- MODULE Spec2Model ----
(***************************************************************************)
(* Verification model of the pharma-search engine: the result cache of     *)
(* PharmaSearchEngine.search / DuckDBPharmaSearchEngine.search, the        *)
(* candidate fetch, and the dynamic grouping of candidates into price      *)
(* comparison groups (PharmaPreprocessor grouping keys, rule-based and ML  *)
(* merge decisions, group statistics and ordering).                        *)
(*                                                                         *)
(* Strings are sequences of one-character strings, so that rapidfuzz's     *)
(* ratio, str.split, str.join and SQL LIKE are computed, not assumed.      *)
(***************************************************************************)
EXTENDS Integers, Sequences, FiniteSets, TLC

(***************************************************************************)
(* Generic helpers                                                         *)
(***************************************************************************)
Max2(a, b) == IF a >= b THEN a ELSE b
Min2(a, b) == IF a <= b THEN a ELSE b

Range(s) == {s[i] : i \in 1..Len(s)}

RECURSIVE SumSeq(_)
SumSeq(s) == IF s = <<>> THEN 0 ELSE Head(s) + SumSeq(Tail(s))

RECURSIVE ProdSeq(_)
ProdSeq(s) == IF s = <<>> THEN 1 ELSE Head(s) * ProdSeq(Tail(s))

RECURSIVE SeqMin(_)
SeqMin(s) == IF Len(s) = 1 THEN s[1] ELSE Min2(Head(s), SeqMin(Tail(s)))

RECURSIVE SeqMax(_)
SeqMax(s) == IF Len(s) = 1 THEN s[1] ELSE Max2(Head(s), SeqMax(Tail(s)))

\* Python list.index / enumerate position (0-based) of the first x in s, Len(s) if absent
RECURSIVE IndexOf(_, _)
IndexOf(s, x) ==
    IF s = <<>> THEN 0
    ELSE IF Head(s) = x THEN 0 ELSE 1 + IndexOf(Tail(s), x)

\* the duplicate-free sequences over S of length 0..n
RECURSIVE SeqsNoDup(_, _)
SeqsNoDup(S, n) ==
    IF n = 0 \/ S = {} THEN {<<>>}
    ELSE {<<>>} \cup UNION {{<<x>> \o t : t \in SeqsNoDup(S \ {x}, n - 1)} : x \in S}

\* the orderings of the whole set S
Perms(S) == {s \in SeqsNoDup(S, Cardinality(S)) : Len(s) = Cardinality(S)}

\* Python slice s[a:b] with 0 <= a
Slice(s, a, b) == SubSeq(s, a + 1, Min2(b, Len(s)))

(***************************************************************************)
(* rapidfuzz.fuzz.ratio: the normalised Indel similarity                   *)
(*   100 * (1 - (len1 + len2 - 2*LCS) / (len1 + len2)) = 200*LCS/(len1+len2) *)
(* kept as the exact fraction <<numerator, denominator>>.                  *)
(***************************************************************************)
\* one row of the longest-common-subsequence table: prev is the row of the
\* shorter prefix of a, c the next character of a
RECURSIVE LcsRow(_, _, _, _)
LcsRow(prev, c, b, acc) ==
    LET j == Len(acc)
    IN  IF j > Len(b) THEN acc
        ELSE LcsRow(prev, c, b,
                Append(acc,
                    IF j = 0 THEN 0
                    ELSE IF b[j] = c THEN prev[j] + 1
                    ELSE Max2(prev[j + 1], acc[j])))

RECURSIVE LcsRows(_, _, _)
\* the rows for the characters of a, one after the other; a row has
\* Len(b) + 1 entries and is computed before the next one is started
LcsRows(a, b, prev) ==
    IF a = <<>> THEN prev
    ELSE LET row == LcsRow(prev, Head(a), b, <<>>)
         IN  IF row = <<>> THEN row ELSE LcsRows(Tail(a), b, row)

LCS(a, b) == LcsRows(a, b, [j \in 1..(Len(b) + 1) |-> 0])[Len(b) + 1]

\* fuzz.ratio(a, b) / 100.0 as a fraction; two empty strings are identical (1/1)
FuzzRatio(a, b) ==
    IF Len(a) + Len(b) = 0 THEN <<1, 1>>
    ELSE <<2 * LCS(a, b), Len(a) + Len(b)>>

(***************************************************************************)
(* str.join and str.split on character sequences                           *)
(***************************************************************************)
Bar == "|"

RECURSIVE Join(_, _)
Join(parts, sep) ==
    IF parts = <<>> THEN <<>>
    ELSE IF Len(parts) = 1 THEN parts[1]
    ELSE parts[1] \o <<sep>> \o Join(Tail(parts), sep)

RECURSIVE SplitFrom(_, _, _, _)
SplitFrom(s, sep, cur, acc) ==
    IF s = <<>> THEN Append(acc, cur)
    ELSE IF Head(s) = sep THEN SplitFrom(Tail(s), sep, <<>>, Append(acc, cur))
    ELSE SplitFrom(Tail(s), sep, Append(cur, Head(s)), acc)

Split(s, sep) == SplitFrom(s, sep, <<>>, <<>>)

\* SQL LIKE '%q%' on lower-cased text: q occurs in s as a substring
Contains(s, q) ==
    \E i \in 0..(Len(s) - Len(q)) : SubSeq(s, i + 1, i + Len(q)) = q

\* SQL LIKE 'q%' / str.startswith
StartsWith(s, q) == Len(q) <= Len(s) /\ SubSeq(s, 1, Len(q)) = q

(***************************************************************************)
(* Product data.  A row of "Product" joined with Vendor and Brand, with    *)
(* the text columns lower-cased.  NoText is SQL NULL / Python None (no     *)
(* text is made of it: every text is a sequence of one-character strings). *)
(*                                                                         *)
(* ident is PharmaPreprocessor.preprocess_product(title, brand_name) of    *)
(* the row, worked out from the extraction regexes of preprocessor.py:     *)
(*   "pampers newborn 2-5kg", brand "pampers": no strength ("5kg" is not a *)
(*     unit of strength_patterns), no form, no variant, category "other",  *)
(*     base name = title minus the brand = "newborn 2-5kg";                *)
(*   "pampers maxi 9-14kg", brand "pampers": variant "maxi" is removed     *)
(*     from the base name as well, base name "9-14kg";                     *)
(*   "vitamin c 500 mg": strength "500 mg", category "vitamins", base name *)
(*     "vitamin" (the one-letter word "c" is dropped with the noise words);*)
(*   "": _empty_identity(), every field empty.                             *)
(***************************************************************************)
NoText == <<"NULL">>

s_pampers == <<"p", "a", "m", "p", "e", "r", "s">>
s_bayer == <<"b", "a", "y", "e", "r">>
s_pfizer == <<"p", "f", "i", "z", "e", "r">>
s_other == <<"o", "t", "h", "e", "r">>
s_vitamins == <<"v", "i", "t", "a", "m", "i", "n", "s">>
s_vitamin == <<"v", "i", "t", "a", "m", "i", "n">>
s_500mg == <<"5", "0", "0", " ", "m", "g">>
s_newborn == <<"n", "e", "w", "b", "o", "r", "n", " ", "2", "-", "5", "k", "g">>
s_maxi == <<"9", "-", "1", "4", "k", "g">>
t_newborn == s_pampers \o <<" ">> \o s_newborn
t_maxi == s_pampers \o <<" ", "m", "a", "x", "i", " ">> \o s_maxi
t_vitc == s_vitamin \o <<" ", "c", " ">> \o s_500mg
n_vitc == s_vitamin \o <<" ", "c">>

EmptyIdentity ==
    [base_name |-> <<>>, brand |-> <<>>, strength |-> <<>>, form |-> <<>>,
     category |-> <<>>]

Identity(base, brand, strength, category) ==
    [base_name |-> base, brand |-> brand, strength |-> strength, form |-> <<>>,
     category |-> category]

ProductIds == 1..6

Catalog ==
    [id \in ProductIds |->
        CASE id = 1 -> [title |-> t_newborn, normalizedName |-> t_newborn,
                        price |-> 20, vendorId |-> 1, brand_name |-> s_pampers,
                        ident |-> Identity(s_newborn, s_pampers, <<>>, s_other)]
          [] id = 2 -> [title |-> t_maxi, normalizedName |-> t_maxi,
                        price |-> 25, vendorId |-> 2, brand_name |-> s_pampers,
                        ident |-> Identity(s_maxi, s_pampers, <<>>, s_other)]
          [] id = 3 -> [title |-> t_vitc, normalizedName |-> n_vitc,
                        price |-> 10, vendorId |-> 1, brand_name |-> s_bayer,
                        ident |-> Identity(s_vitamin, s_bayer, s_500mg, s_vitamins)]
          [] id = 4 -> [title |-> t_vitc, normalizedName |-> n_vitc,
                        price |-> 10, vendorId |-> 2, brand_name |-> s_pfizer,
                        ident |-> Identity(s_vitamin, s_pfizer, s_500mg, s_vitamins)]
          [] id = 5 -> [title |-> <<>>, normalizedName |-> NoText,
                        price |-> 15, vendorId |-> 1, brand_name |-> s_bayer,
                        ident |-> EmptyIdentity]
          [] id = 6 -> [title |-> t_vitc, normalizedName |-> n_vitc,
                        price |-> 0, vendorId |-> 2, brand_name |-> s_bayer,
                        ident |-> Identity(s_vitamin, s_bayer, s_500mg, s_vitamins)]]

(***************************************************************************)
(* PharmaPreprocessor: grouping key and the rule-based merge decision      *)
(***************************************************************************)
\* the forms left out of the key: 'tableta', 'kapsula', 'tablete', 'kapsule'
CommonForms ==
    {<<"t", "a", "b", "l", "e", "t", "a">>, <<"k", "a", "p", "s", "u", "l", "a">>,
     <<"t", "a", "b", "l", "e", "t", "e">>, <<"k", "a", "p", "s", "u", "l", "e">>}

\* _generate_grouping_key: the non-empty parts joined with "|"
GenerateGroupingKey(base_name, brand, strength, form, category) ==
    LET key_parts ==
            (IF base_name # <<>> THEN <<base_name>> ELSE <<>>)
         \o (IF brand # <<>> THEN <<brand>> ELSE <<>>)
         \o (IF strength # <<>> THEN <<strength>> ELSE <<>>)
         \o (IF category # <<>> THEN <<category>> ELSE <<>>)
         \o (IF form # <<>> /\ form \notin CommonForms THEN <<form>> ELSE <<>>)
    IN  Join(key_parts, Bar)

\* sum(similarities) / len(similarities) >= threshold, on exact fractions:
\* sims is a sequence of <<num, den>>, thresholdPct the threshold times 100
AverageAtLeast(sims, thresholdPct) ==
    LET dens == [i \in 1..Len(sims) |-> sims[i][2]]
        D == ProdSeq(dens)
        scaled == [i \in 1..Len(sims) |-> sims[i][1] * (D \div sims[i][2])]
    IN  100 * SumSeq(scaled) >= thresholdPct * Len(sims) * D

\* the per-part similarities of should_group_by_keys' zip loop
PartSimilarities(parts1, parts2) ==
    [i \in 1..Len(parts1) |->
        IF parts1[i] = parts2[i] THEN <<1, 1>> ELSE FuzzRatio(parts1[i], parts2[i])]

\* should_group_by_keys(key1, key2, similarity_threshold)
should_group_by_keys(key1, key2, thresholdPct) ==
    IF key1 = <<>> \/ key2 = <<>> THEN FALSE
    ELSE IF key1 = key2 THEN TRUE
    ELSE LET parts1 == Split(key1, Bar)
             parts2 == Split(key2, Bar)
         IN  IF Len(parts1) # Len(parts2) THEN FALSE
             ELSE AverageAtLeast(PartSimilarities(parts1, parts2), thresholdPct)

\* identity.grouping_key of each catalog product
KeyOf ==
    [id \in ProductIds |->
        LET i == Catalog[id].ident
        IN  GenerateGroupingKey(i.base_name, i.brand, i.strength, i.form, i.category)]

(***************************************************************************)
(* ML state: the module-level ml_preprocessor of ml_preprocessor.py.       *)
(* loaded = FALSE is ml_preprocessor = None.  emb is the key set of        *)
(* product_embeddings, cos the cosine similarity of two embeddings in      *)
(* percent, far the pairs whose similarity hashes are more than 32 bits    *)
(* apart; the category and strength stored with an embedding are those of  *)
(* the product.                                                            *)
(***************************************************************************)
Pair(a, b) == {a, b}

CosTable(high, mid) ==
    [pr \in {Pair(a, b) : a, b \in ProductIds} |->
        IF Cardinality(pr) = 1 THEN 100
        ELSE IF pr \in high THEN 90
        ELSE IF pr \in mid THEN 82
        ELSE 10]

MLNone ==
    [loaded |-> FALSE, emb |-> {}, cos |-> CosTable({}, {}), far |-> {}, raises |-> FALSE]

\* trained, but without any embedding (_train_models returned early)
MLEmpty ==
    [loaded |-> TRUE, emb |-> {}, cos |-> CosTable({}, {}), far |-> {}, raises |-> FALSE]

\* embeddings close enough for DBSCAN to find the clusters {1,2} and {3,4,6}
MLClustered ==
    [loaded |-> TRUE, emb |-> {1, 2, 3, 4, 6},
     cos |-> CosTable({{1, 2}, {3, 4}, {3, 6}}, {}), far |-> {}, raises |-> FALSE]

\* embeddings that give no cluster, but pairwise similarities above 0.80
MLPairwise ==
    [loaded |-> TRUE, emb |-> {1, 3, 4, 5, 6},
     cos |-> CosTable({}, {{1, 3}, {3, 4}, {5, 3}, {4, 6}}), far |-> {{4, 6}},
     raises |-> FALSE]

\* the same embeddings as MLClustered, with torch.stack or DBSCAN(...).fit
\* raising in get_ml_clusters; the pairwise calls answer as usual
MLRaising == [MLClustered EXCEPT !.raises = TRUE]

MLStates == {MLNone, MLEmpty, MLClustered, MLPairwise, MLRaising}

\* compute_similarity(product_id1, product_id2), in percent
compute_similarity(ml, a, b) ==
    IF a \notin ml.emb \/ b \notin ml.emb THEN 0 ELSE ml.cos[Pair(a, b)]

\* should_group_products_ml(product_id1, product_id2, threshold)
should_group_products_ml(ml, a, b, thresholdPct) ==
    LET c1 == Catalog[a].ident.category
        c2 == Catalog[b].ident.category
        s1 == Catalog[a].ident.strength
        s2 == Catalog[b].ident.strength
    IN  IF a \notin ml.emb \/ b \notin ml.emb THEN FALSE
        ELSE IF Pair(a, b) \in ml.far THEN FALSE
        ELSE IF c1 # c2 /\ c1 # s_other /\ c2 # s_other THEN FALSE
        ELSE IF s1 # <<>> /\ s2 # <<>> /\ s1 # s2 THEN FALSE
        ELSE compute_similarity(ml, a, b) >= thresholdPct

\* DBSCAN(eps = 0.15, min_samples = 2, metric = 'cosine'): two points are
\* neighbours when 1 - cos <= 0.15; with min_samples = 2 every point that has
\* a neighbour is a core point, so the clusters are the connected components
\* with at least two points and the rest is noise (label -1)
EpsPct == 85

RECURSIVE Reach(_, _, _)
Reach(ml, S, valid) ==
    LET T == S \cup {b \in valid : \E a \in S : a # b /\ ml.cos[Pair(a, b)] >= EpsPct}
    IN  IF T = S THEN S ELSE Reach(ml, T, valid)

\* the clusters in label order (labels are given in the order of the points),
\* each cluster's members in the order of valid_products
RECURSIVE ClustersFrom(_, _, _, _)
ClustersFrom(ml, valid, i, acc) ==
    IF i > Len(valid) THEN acc
    ELSE LET comp == Reach(ml, {valid[i]}, Range(valid))
             seen == \E c \in 1..Len(acc) : valid[i] \in Range(acc[c])
         IN  IF seen \/ Cardinality(comp) < 2 THEN ClustersFrom(ml, valid, i + 1, acc)
             ELSE ClustersFrom(ml, valid, i + 1,
                    Append(acc, SelectSeq(valid, LAMBDA x : x \in comp)))

\* get_ml_clusters(product_ids, eps=0.15, min_samples=2) raises: it reaches
\* torch.stack and DBSCAN(...).fit, and one of them raises
clustering_raises(ml, product_ids) ==
    /\ ml.emb # {}
    /\ Len(SelectSeq(product_ids, LAMBDA x : x \in ml.emb)) >= 2
    /\ ml.raises

\* get_ml_clusters(product_ids, eps=0.15, min_samples=2) when it returns: a
\* sequence of clusters
get_ml_clusters(ml, product_ids) ==
    LET valid_products == SelectSeq(product_ids, LAMBDA x : x \in ml.emb)
    IN  IF ml.emb = {} THEN <<>>
        ELSE IF Len(valid_products) < 2 THEN <<>>
        ELSE ClustersFrom(ml, valid_products, 1, <<>>)

(***************************************************************************)
(* PharmaSearchEngine grouping (search_engine.py)                          *)
(***************************************************************************)
\* list.sort(key=...) is stable: x goes after every element whose key is not larger
RECURSIVE InsertSorted(_, _)
InsertSorted(sorted, x) ==
    IF sorted = <<>> THEN <<x>>
    ELSE IF sorted[1].k1 < x.k1 \/ (sorted[1].k1 = x.k1 /\ sorted[1].k2 <= x.k2)
         THEN <<sorted[1]>> \o InsertSorted(Tail(sorted), x)
         ELSE <<x>> \o sorted

RECURSIVE StableSort(_, _)
StableSort(items, acc) ==
    IF items = <<>> THEN acc
    ELSE StableSort(Tail(items), InsertSorted(acc, Head(items)))

\* group_products.sort(key=lambda x: float(x.get('price', 0)))
SortByPrice(ids) ==
    LET keyed == [i \in 1..Len(ids) |-> [k1 |-> Catalog[ids[i]].price, k2 |-> 0, v |-> ids[i]]]
        sorted == StableSort(keyed, <<>>)
    IN  [i \in 1..Len(sorted) |-> sorted[i].v]

\* [float(p.get('price', 0)) for p in group_products if p.get('price')]:
\* a price of 0 is falsy and is left out
TruthyPrices(ids) ==
    LET kept == SelectSeq(ids, LAMBDA x : Catalog[x].price # 0)
    IN  [i \in 1..Len(kept) |-> Catalog[kept[i]].price]

\* the position of the group's first product (after the price sort) in product_ids
SearchRank(sorted_products, product_ids) == IndexOf(product_ids, sorted_products[1])

\* str(n) of a one-digit number
Digit == [n \in 0..9 |-> CASE n = 0 -> "0" [] n = 1 -> "1" [] n = 2 -> "2" [] n = 3 -> "3"
                            [] n = 4 -> "4" [] n = 5 -> "5" [] n = 6 -> "6" [] n = 7 -> "7"
                            [] n = 8 -> "8" [] n = 9 -> "9"]

\* f"single_{product.get('id')}"
SingleKey(id) == <<"s", "i", "n", "g", "l", "e", "_", Digit[id]>>

\* _create_group_from_products(group_products, product_ids, group_id_prefix);
\* the products of the page are kept as ids, their price and vendor are Catalog's
\* the returned dict, for the group_products sorted by price and their prices
GroupDict(sorted, prices, product_ids, group_id) ==
    [id |-> group_id,
     products |-> sorted,
     price_range |-> [min |-> IF prices # <<>> THEN SeqMin(prices) ELSE 0,
                      max |-> IF prices # <<>> THEN SeqMax(prices) ELSE 0],
     vendor_count |-> Cardinality({Catalog[x].vendorId : x \in Range(sorted)}),
     product_count |-> Len(sorted),
     search_rank |-> SearchRank(sorted, product_ids)]

SortedGroupDict(sorted, product_ids, group_id) ==
    GroupDict(sorted, TruthyPrices(sorted), product_ids, group_id)

create_group_from_products(group_products, product_ids, group_id) ==
    SortedGroupDict(SortByPrice(group_products), product_ids, group_id)

\* final_groups.sort(key=lambda x: (x.get("search_rank", 999), -x["vendor_count"]))
SortGroups(groups) ==
    LET keyed == [i \in 1..Len(groups) |->
                    [k1 |-> groups[i].search_rank, k2 |-> 0 - groups[i].vendor_count,
                     v |-> groups[i]]]
        sorted == StableSort(keyed, <<>>)
    IN  [i \in 1..Len(sorted) |-> sorted[i].v]

\* _create_groups_from_ml_clusters(products, ml_clusters, product_ids)
\* cluster_products of cluster c: its ids that are among the fetched products
ClusterProducts(products, cluster) == SelectSeq(cluster, LAMBDA x : x \in Range(products))

\* the groups of the clusters that have products, in cluster order; kept is
\* the sequence of their cluster numbers
ClusterGroups(products, ml_clusters, product_ids, kept) ==
    [i \in 1..Len(kept) |->
        create_group_from_products(ClusterProducts(products, ml_clusters[kept[i]]), product_ids,
                                   <<"ml_cluster", <<Digit[kept[i] - 1]>>>>)]

\* the groups of size one of the products left in unclustered_products
SingleGroups(unclustered, product_ids) ==
    [i \in 1..Len(unclustered) |->
        create_group_from_products(<<unclustered[i]>>, product_ids,
                                   <<"single", <<Digit[unclustered[i]]>>>>)]

\* the ids that some cluster holds
Clustered(ml_clusters) == UNION {Range(ml_clusters[c]) : c \in 1..Len(ml_clusters)}

create_groups_from_ml_clusters(products, ml_clusters, product_ids) ==
    SortGroups(
        ClusterGroups(products, ml_clusters, product_ids,
            SelectSeq([c \in 1..Len(ml_clusters) |-> c],
                      LAMBDA c : ClusterProducts(products, ml_clusters[c]) # <<>>))
        \o SingleGroups(SelectSeq(products, LAMBDA x : x \notin Clustered(ml_clusters)),
                        product_ids))

\* fractions <<n, d>> with d > 0
FracGT(x, y) == x[1] * y[2] > y[1] * x[2]

\* max(fuzz.ratio, fuzz.token_sort_ratio, fuzz.token_set_ratio) / 100 of the
\* ungrouped loop.  An item is in `ungrouped` only when its grouping key is
\* empty, which preprocess_product gives for an empty title alone; for an empty
\* title token_sort_ratio equals ratio and token_set_ratio is 0, so the maximum
\* is fuzz.ratio: 1 against another empty title, 0 against any other
TextSimilarity(product_title, group_title) == FuzzRatio(product_title, group_title)

\* the first loop of _group_products_hybrid: the index of the first existing
\* group that the rule-based or the ML decision accepts, 0 when there is none
\* rule_based_similar or ml_similar for the existing group
SimilarToGroup(group, key, product_id, ml) ==
    \/ should_group_by_keys(key, group.key, 75)
    \/ /\ ml.loaded
       /\ should_group_products_ml(ml, product_id, group.items[1], 80)

\* the smallest element of a set of indexes, 0 for the empty set
FirstOf(hits) == IF hits = {} THEN 0 ELSE CHOOSE g \in hits : \A h \in hits : g <= h

FirstSimilarGroup(groups, key, product_id, ml) ==
    FirstOf({g \in 1..Len(groups) : SimilarToGroup(groups[g], key, product_id, ml)})

\* groups_dict after the item was put into group g, or into a new group of
\* its own key when g = 0
PutInGroup(groups, g, key, id) ==
    IF g # 0 THEN [groups EXCEPT ![g].items = Append(@, id)]
    ELSE Append(groups, [key |-> key, items |-> <<id>>])

RECURSIVE HybridFirstLoop(_, _, _, _)
HybridFirstLoop(products, ml, groups, ungrouped) ==
    IF products = <<>> THEN [groups |-> groups, ungrouped |-> ungrouped]
    ELSE IF KeyOf[Head(products)] = <<>>
    THEN HybridFirstLoop(Tail(products), ml, groups, Append(ungrouped, Head(products)))
    ELSE HybridFirstLoop(Tail(products), ml,
            PutInGroup(groups,
                       FirstSimilarGroup(groups, KeyOf[Head(products)], Head(products), ml),
                       KeyOf[Head(products)], Head(products)),
            ungrouped)

\* the scan of one ungrouped item over groups_dict: best is
\* [key |-> index of best_group_key or 0, sim |-> best_similarity]
\* best after group g was looked at, given the two similarities with it
BetterGroup(g, loaded, ml_similarity, text_similarity, best) ==
    IF loaded /\ FracGT(ml_similarity, best.sim) /\ FracGT(ml_similarity, <<70, 100>>)
    THEN [key |-> g, sim |-> ml_similarity]
    ELSE IF FracGT(text_similarity, best.sim) /\ FracGT(text_similarity, <<70, 100>>)
    THEN [key |-> g, sim |-> text_similarity]
    ELSE best

RECURSIVE BestGroup(_, _, _, _, _)
BestGroup(groups, g, id, ml, best) ==
    IF g > Len(groups) THEN best
    ELSE BestGroup(groups, g + 1, id, ml,
            BetterGroup(g, ml.loaded,
                        <<compute_similarity(ml, id, groups[g].items[1]), 100>>,
                        TextSimilarity(Catalog[id].title, Catalog[groups[g].items[1]].title),
                        best))

RECURSIVE HybridUngroupedLoop(_, _, _)
HybridUngroupedLoop(ungrouped, ml, groups) ==
    IF ungrouped = <<>> THEN groups
    ELSE HybridUngroupedLoop(Tail(ungrouped), ml,
            PutInGroup(groups,
                       BestGroup(groups, 1, Head(ungrouped), ml,
                                 [key |-> 0, sim |-> <<0, 1>>]).key,
                       SingleKey(Head(ungrouped)), Head(ungrouped)))

\* groups_dict of _group_products_hybrid after both loops, in insertion order
\* the second loop applied to the outcome of the first
HybridSecondLoop(first, ml) == HybridUngroupedLoop(first.ungrouped, ml, first.groups)

HybridGroupsDict(products, ml) ==
    HybridSecondLoop(HybridFirstLoop(products, ml, <<>>, <<>>), ml)

\* _group_products_hybrid(products, query, product_ids); the group id is
\* f"hybrid_{abs(hash(group_key))}", kept as the key itself (hash is a function
\* of the key within one process)
\* final_groups before the sort
HybridFinalGroups(groups_dict, product_ids) ==
    [g \in 1..Len(groups_dict) |->
        create_group_from_products(groups_dict[g].items, product_ids,
                                   <<"hybrid", groups_dict[g].key>>)]

group_products_hybrid(products, product_ids, ml) ==
    SortGroups(HybridFinalGroups(HybridGroupsDict(products, ml), product_ids))

\* _group_products_with_preprocessor / _group_products_dynamically
\* _group_products_with_preprocessor once ml_clusters is known (<<>> is the
\* empty dict, also taken when get_ml_preprocessor() is None or when
\* `except Exception` caught what get_ml_clusters raised)
GroupWithClusters(products, product_ids, ml, ml_clusters) ==
    IF ml_clusters # <<>>
    THEN create_groups_from_ml_clusters(products, ml_clusters, product_ids)
    ELSE group_products_hybrid(products, product_ids, ml)

\* an exception that leaves the grouping, in the place of the list of groups
Raised == <<[raised |-> TRUE]>>

\* the grouping without the try of _group_products_with_preprocessor
group_products_uncaught(products, product_ids, ml) ==
    IF products = <<>> THEN <<>>
    ELSE IF ml.loaded /\ clustering_raises(ml, product_ids) THEN Raised
    ELSE GroupWithClusters(products, product_ids, ml,
            IF ml.loaded THEN get_ml_clusters(ml, product_ids) ELSE <<>>)

group_products_dynamically(products, product_ids, ml) ==
    IF products = <<>> THEN <<>>
    ELSE GroupWithClusters(products, product_ids, ml,
            IF ml.loaded /\ ~clustering_raises(ml, product_ids)
            THEN get_ml_clusters(ml, product_ids) ELSE <<>>)

(***************************************************************************)
(* Requests: filters and paging                                            *)
(***************************************************************************)
\* a filter that is not given: None for a price (prices are not negative),
\* no vendor list (the API passes vendor_ids only when the list is not empty)
None == 0 - 1
NoVendors == {}

\* filters: min_price, max_price and vendor_ids
Filters(lo, hi, vendors) == [min_price |-> lo, max_price |-> hi, vendor_ids |-> vendors]
NoFilters == Filters(None, None, NoVendors)

\* the WHERE clause of _create_dynamic_groups (search_engine.py) and the
\* AND conditions that _get_fts_matches appends (search_engine_duckdb.py)
PassesFilters(id, filters) ==
    /\ (filters.min_price = None \/ Catalog[id].price >= filters.min_price)
    /\ (filters.max_price = None \/ Catalog[id].price <= filters.max_price)
    /\ (filters.vendor_ids = NoVendors \/ Catalog[id].vendorId \in filters.vendor_ids)

EmptyPage(offset, limit) ==
    [groups |-> <<>>, total |-> 0, offset |-> offset, limit |-> limit]

\* groups[offset:offset + limit] with the total of the complete group list
PageOf(groups, offset, limit) ==
    [groups |-> Slice(groups, offset, offset + limit), total |-> Len(groups),
     offset |-> offset, limit |-> limit]

(***************************************************************************)
(* PharmaSearchEngine._create_dynamic_groups                               *)
(***************************************************************************)
\* the rows the SELECT ... WHERE p.id = ANY($1) AND <filters> ORDER BY p.price
\* can return: every ordering of the selected rows that is sorted by price
\* (SQL leaves the order of rows with equal prices open)
FetchForGrouping(product_ids, filters) ==
    LET selected == {id \in Range(product_ids) : PassesFilters(id, filters)}
    IN  {rows \in Perms(selected) :
            \A i \in 1..(Len(rows) - 1) : Catalog[rows[i]].price <= Catalog[rows[i + 1]].price}

\* _create_dynamic_groups(product_ids, query, filters, limit, offset) for the
\* fetched rows `products`
create_dynamic_groups(products, product_ids, ml, limit, offset) ==
    IF products = <<>> THEN EmptyPage(offset, limit)
    ELSE PageOf(group_products_dynamically(products, product_ids, ml), offset, limit)

(***************************************************************************)
(* DuckDBPharmaSearchEngine (search_engine_duckdb.py)                      *)
(***************************************************************************)
SqlEq(col, q) == col # NoText /\ col = q
SqlPrefix(col, q) == col # NoText /\ StartsWith(col, q)
SqlContains(col, q) == col # NoText /\ Contains(col, q)

\* the WHERE clause shared by _get_fts_matches and _fallback_text_search
FtsMatches(id, q) ==
    \/ SqlContains(Catalog[id].title, q)
    \/ SqlContains(Catalog[id].normalizedName, q)
    \/ SqlContains(Catalog[id].brand_name, q)

\* the CASE expression relevance_score of _get_fts_matches
RelevanceScore(id, q) ==
    LET p == Catalog[id]
    IN  IF SqlEq(p.title, q) THEN 1000
        ELSE IF SqlEq(p.normalizedName, q) THEN 950
        ELSE IF SqlPrefix(p.title, q) THEN 700
        ELSE IF SqlPrefix(p.normalizedName, q) THEN 650
        ELSE IF SqlEq(p.brand_name, q) THEN 600
        ELSE IF SqlPrefix(p.brand_name, q) THEN 550
        ELSE IF SqlContains(p.title, q) THEN 400
        ELSE IF SqlContains(p.normalizedName, q) THEN 350
        ELSE 100

\* the CASE expression of _fallback_text_search (no brand tiers)
FallbackScore(id, q) ==
    LET p == Catalog[id]
    IN  IF SqlEq(p.title, q) THEN 1000
        ELSE IF SqlEq(p.normalizedName, q) THEN 950
        ELSE IF SqlPrefix(p.title, q) THEN 700
        ELSE IF SqlPrefix(p.normalizedName, q) THEN 650
        ELSE IF SqlContains(p.title, q) THEN 400
        ELSE IF SqlContains(p.normalizedName, q) THEN 350
        ELSE 100

\* the orderings of `selected` that ORDER BY relevance_score DESC allows
\* (score is the relevance_score of every product)
OrderedByScoreDesc(selected, score) ==
    {rows \in Perms(selected) :
        \A i \in 1..(Len(rows) - 1) : score[rows[i]] >= score[rows[i + 1]]}

\* _get_fts_matches(query, filters, search_type): the lists it can return.
\* primary = "ok": the filtered query succeeds.  primary = "error": conn.execute
\* raised and _fallback_text_search runs, which takes `filters` but applies
\* none of them; fallback = "error": it raised as well and [] is returned.
get_fts_matches(q, filters, primary, fallback) ==
    IF primary = "ok"
    THEN OrderedByScoreDesc({id \in ProductIds : FtsMatches(id, q) /\ PassesFilters(id, filters)},
                            [id \in ProductIds |-> RelevanceScore(id, q)])
    ELSE IF fallback = "ok"
    THEN OrderedByScoreDesc({id \in ProductIds : FtsMatches(id, q)},
                            [id \in ProductIds |-> FallbackScore(id, q)])
    ELSE {<<>>}

\* group_key = product.get('normalizedName') or product.get('title', '')
DuckGroupKey(id) ==
    IF Catalog[id].normalizedName # NoText /\ Catalog[id].normalizedName # <<>>
    THEN Catalog[id].normalizedName
    ELSE Catalog[id].title

\* groups_dict of the DuckDB _create_dynamic_groups, in insertion order;
\* a product with an empty group key is skipped
RECURSIVE DuckGroupsDict(_, _)
DuckGroupsDict(matches, groups) ==
    IF matches = <<>> THEN groups
    ELSE LET id == Head(matches)
             key == DuckGroupKey(id)
             hits == {g \in 1..Len(groups) : groups[g].key = key}
         IN  IF key = <<>> THEN DuckGroupsDict(Tail(matches), groups)
             ELSE IF hits # {}
             THEN DuckGroupsDict(Tail(matches),
                    [groups EXCEPT ![CHOOSE g \in hits : TRUE].items = Append(@, id)])
             ELSE DuckGroupsDict(Tail(matches), Append(groups, [key |-> key, items |-> <<id>>]))

\* one group object of the DuckDB engine; avg is the fraction <<sum, count>>
DuckGroup(group_name, products) ==
    LET prices == [i \in 1..Len(products) |-> Catalog[products[i]].price]
    IN  [id |-> <<"md5", group_name>>,
         normalized_name |-> group_name,
         products |-> products,
         price_range |-> [min |-> SeqMin(prices), max |-> SeqMax(prices),
                          avg |-> <<SumSeq(prices), Len(prices)>>],
         vendor_count |-> Cardinality({Catalog[x].vendorId : x \in Range(products)}),
         product_count |-> Len(products)]

\* group_relevance(group) of the DuckDB _create_dynamic_groups
group_relevance(group, q) ==
    (IF Contains(group.normalized_name, q) THEN 1000
     ELSE IF StartsWith(group.normalized_name, q) THEN 500
     ELSE 100)
    + (IF group.vendor_count > 1 THEN 50 ELSE 0)

\* groups.sort(key=group_relevance, reverse=True): stable, equal keys keep their order
DuckSortGroups(groups, q) ==
    LET keyed == [i \in 1..Len(groups) |->
                    [k1 |-> 0 - group_relevance(groups[i], q), k2 |-> 0, v |-> groups[i]]]
        sorted == StableSort(keyed, <<>>)
    IN  [i \in 1..Len(sorted) |-> sorted[i].v]

\* the complete sorted group list of the DuckDB _create_dynamic_groups
\* groups before the sort
DuckGroupList(groups_dict) ==
    [g \in 1..Len(groups_dict) |-> DuckGroup(groups_dict[g].key, groups_dict[g].items)]

duck_groups(matches, q) == DuckSortGroups(DuckGroupList(DuckGroupsDict(matches, <<>>)), q)

\* _search_with_grouping(query, filters, limit, offset, search_type) for the
\* rows `matches` that _get_fts_matches returned
search_with_grouping(matches, q, limit, offset) ==
    IF matches = <<>> THEN EmptyPage(offset, limit)
    ELSE PageOf(duck_groups(matches, q), offset, limit)

(***************************************************************************)
(* Inputs                                                                  *)
(***************************************************************************)
\* the longest candidate list handed to the grouping stage
MaxCand == 3

q_empty == <<>>
q_vitamin == s_vitamin
q_pampers == s_pampers
q_bayer == s_bayer
q_none == <<"z", "z", "z", "z">>

\* queries after query.lower().strip()
Queries == {q_empty, q_vitamin, q_pampers, q_bayer, q_none}

FilterSet ==
    {NoFilters, Filters(10, 20, NoVendors), Filters(None, 15, NoVendors), Filters(10, None, {1})}

\* <<limit, offset>>: the default page and a second page of one group
Pagings == {<<5000, 0>>, <<1, 1>>}

NoPage == [groups |-> <<>>, total |-> 0 - 1, offset |-> 0, limit |-> 0]

(***************************************************************************)
(* State                                                                   *)
(***************************************************************************)
VARIABLES
    gcall,      \* one call of the grouping stage: engine and arguments
    ggroups,    \* the complete group list the call built (before pagination)
    gpage,      \* the page the call returned, NoPage while it has not
    engine,     \* the engine object serving search: "pg" or "duckdb"
    snapshot,   \* the fixed data: query under test, fast_product_search rows, ML state
    cache,      \* _search_cache in insertion order: <<[key, result, timestamp], ...>>
    now,        \* the reading of time.time()
    calls,      \* per call of search: its position, arguments and locals
    heap,       \* the result dicts the calls created: search_type_used, and
                \* whether _search_cache still refers to the dict
    held,       \* per call of search: the result dict it returned
    ml_preprocessor,    \* the global of ml_preprocessor.py: 0 (None) or an instance
    instances,  \* the MLEnhancedPreprocessor instances created so far
    init,       \* the call of initialize_ml_preprocessor: position and locals
    reader,     \* what the last call of get_ml_preprocessor() saw
    fcall,      \* one call of a function of the matching tier: arguments and result
    pools,      \* the DuckDBPool objects created so far
    db_pool,    \* the global db_pool of database.py: 0 (None) or a pool
    conns,      \* the DuckDBConnection objects: handle open or None, holder of _lock
    ptasks,     \* per component using the pool: its position and references
    proc        \* one run of process_products and the rows it works on

gvars == <<gcall, ggroups, gpage>>
svars == <<engine, snapshot, cache, now, calls, heap, held>>
ivars == <<ml_preprocessor, instances, init, reader>>
pvars == <<pools, db_pool, conns, ptasks>>
vars == <<gcall, ggroups, gpage, engine, snapshot, cache, now, calls, heap, held,
          ml_preprocessor, instances, init, reader, fcall, pools, db_pool, conns, ptasks,
          proc>>

\* the two concurrent calls of search (asyncio tasks on one event loop)
Tasks == {"t1", "t2"}

IdleCall ==
    [pc |-> "idle", raw |-> <<>>, filters |-> NoFilters, limit |-> 0, offset |-> 0,
     found |-> FALSE, age |-> 0, hit |-> FALSE, db |-> "ok", page |-> NoPage,
     group_results |-> TRUE]

NoSnapshot == [query |-> <<>>, exact |-> <<>>, ml |-> MLNone]

\* a call that has created no result dict
NoObject == [search_type_used |-> "unset", cached |-> FALSE]

\* no result dict exists and no call holds one
HeapEmpty ==
    /\ heap = [t \in Tasks |-> NoObject]
    /\ held = [t \in Tasks |-> "none"]

\* initialize_ml_preprocessor is not running
IdleInit == [pc |-> "idle", inst |-> 0, prev |-> 0]

\* get_ml_preprocessor() has not been called
NoRead == [pc |-> "none", inst |-> 0, emb |-> {}, during |-> FALSE, built |-> FALSE]

\* ml_preprocessor = None, as the module sets it when it is imported
IndexIdle ==
    /\ ml_preprocessor = 0
    /\ instances = <<>>
    /\ init = IdleInit
    /\ reader = NoRead

\* no function of the matching tier has been called
NoFn == [fn |-> "none"]

\* the components that use the pool of database.py
PoolTasks == {"engine", "processor"}

\* a component that has not called connect
NewTask == [pc |-> "new", pool |-> 0, conn |-> 0, yielded_open |-> TRUE, last |-> "none"]

\* db_pool = None, as database.py sets it when it is imported
PoolIdle ==
    /\ pools = <<>>
    /\ db_pool = 0
    /\ conns = <<>>
    /\ ptasks = [t \in PoolTasks |-> NewTask]

\* no run of process_products
NoRun == [pc |-> "none"]

(***************************************************************************)
(* SpecGroup: the grouping stage applied to every bounded input            *)
(***************************************************************************)
GroupCall(eng, q, product_ids, products, filters, ml, db, paging) ==
    [engine |-> eng, query |-> q, product_ids |-> product_ids, products |-> products,
     filters |-> filters, ml |-> ml, db |-> db, limit |-> paging[1], offset |-> paging[2]]

\* PharmaSearchEngine._create_dynamic_groups: any non-empty candidate list (the
\* relevance order of fast_product_search), any order of equal-priced rows
Candidates == SeqsNoDup(ProductIds, MaxCand) \ {<<>>}

PgCalls(candidates) ==
    UNION {UNION {{GroupCall("pg", q_empty, c, products, f, ml, "ok", paging) :
                        products \in FetchForGrouping(c, f), ml \in MLStates,
                        paging \in Pagings} :
                  f \in FilterSet} :
           c \in candidates}

\* DuckDBPharmaSearchEngine._search_with_grouping: any query, the filtered
\* query succeeding ("ok"), raising with the fallback succeeding ("fallback")
\* or both raising ("error"), any order of equally relevant rows
DbOutcomes == {"ok", "fallback", "error"}

DuckMatches(q, f, db) ==
    get_fts_matches(q, f, IF db = "ok" THEN "ok" ELSE "error",
                    IF db = "fallback" THEN "ok" ELSE "error")

DuckCalls ==
    UNION {UNION {UNION {{GroupCall("duckdb", q, <<>>, matches, f, MLNone, db, paging) :
                              matches \in DuckMatches(q, f, db), paging \in Pagings} :
                         db \in DbOutcomes} :
                  f \in FilterSet} :
           q \in Queries}

GroupInit ==
    /\ gcall \in PgCalls(Candidates) \cup DuckCalls
    /\ ggroups = <<>>
    /\ gpage = NoPage
    /\ engine = gcall.engine
    /\ snapshot = NoSnapshot
    /\ cache = <<>>
    /\ now = 0
    /\ calls = [t \in Tasks |-> IdleCall]
    /\ HeapEmpty
    /\ IndexIdle
    /\ fcall = NoFn
    /\ PoolIdle
    /\ proc = NoRun

\* PharmaSearchEngine._create_dynamic_groups on the fetched rows
GroupPg ==
    /\ gcall.engine = "pg"
    /\ gpage = NoPage
    /\ ggroups' = group_products_dynamically(gcall.products, gcall.product_ids, gcall.ml)
    /\ gpage' = create_dynamic_groups(gcall.products, gcall.product_ids, gcall.ml,
                                      gcall.limit, gcall.offset)
    /\ UNCHANGED <<gcall, svars, ivars, fcall, pvars, proc>>

\* DuckDBPharmaSearchEngine._search_with_grouping on the matched rows
GroupDuck ==
    /\ gcall.engine = "duckdb"
    /\ gpage = NoPage
    /\ ggroups' = IF gcall.products = <<>> THEN <<>>
                  ELSE duck_groups(gcall.products, gcall.query)
    /\ gpage' = search_with_grouping(gcall.products, gcall.query, gcall.limit, gcall.offset)
    /\ UNCHANGED <<gcall, svars, ivars, fcall, pvars, proc>>

GroupNext == GroupPg \/ GroupDuck

SpecGroup == GroupInit /\ [][GroupNext]_vars

Returned == gpage # NoPage

(***************************************************************************)
(* Properties of the grouping stage (SpecGroup)                            *)
(***************************************************************************)
Members(group) == Range(group.products)

BrandOf(id) == Catalog[id].ident.brand

\* the candidate list of the call, in relevance order: product_ids for
\* PharmaSearchEngine, the matched rows for DuckDBPharmaSearchEngine
CandidateList == IF gcall.engine = "pg" THEN gcall.product_ids ELSE gcall.products

\* the smallest candidate-list position among the members of a group
FirstAppearance(group) ==
    CHOOSE n \in {IndexOf(CandidateList, m) : m \in Members(group)} :
        \A m \in Members(group) : n <= IndexOf(CandidateList, m)

PriceFiltered == gcall.filters.min_price # None \/ gcall.filters.max_price # None

InPriceRange(id) ==
    /\ (gcall.filters.min_price = None \/ Catalog[id].price >= gcall.filters.min_price)
    /\ (gcall.filters.max_price = None \/ Catalog[id].price <= gcall.filters.max_price)

\* C1: no group returned by PharmaSearchEngine grouping holds two products
\* whose extracted identities both have a brand and whose brands differ.
C1_BrandVeto ==
    (Returned /\ gcall.engine = "pg") =>
        \A g \in 1..Len(ggroups) : \A a, b \in Members(ggroups[g]) :
            (BrandOf(a) # <<>> /\ BrandOf(b) # <<>>) => BrandOf(a) = BrandOf(b)

\* C3: in every returned page the groups are ordered by the smallest
\* candidate-list position among each group's members; vendor count never
\* moves a group ahead of a more relevant one.
C3_RelevanceOrder ==
    Returned =>
        \A i, j \in 1..Len(gpage.groups) :
            i < j => FirstAppearance(gpage.groups[i]) <= FirstAppearance(gpage.groups[j])

\* C6: for every group of a returned page, price_range.min <= the price of
\* every member <= price_range.max, and avg, where reported, lies in [min, max].
C6_PriceStats ==
    Returned =>
        \A g \in 1..Len(gpage.groups) :
            LET grp == gpage.groups[g]
                pr == grp.price_range
            IN  /\ \A m \in Members(grp) : pr.min <= Catalog[m].price /\ Catalog[m].price <= pr.max
                /\ ("avg" \in DOMAIN pr) =>
                      (pr.min * pr.avg[2] <= pr.avg[1] /\ pr.avg[1] <= pr.max * pr.avg[2])

\* C7: when search is called with min_price and/or max_price, every product
\* in every returned group has min_price <= price <= max_price, and no
\* returned group is empty.
C7_PriceFilter ==
    (Returned /\ PriceFiltered) =>
        \A g \in 1..Len(gpage.groups) :
            /\ gpage.groups[g].products # <<>>
            /\ \A m \in Members(gpage.groups[g]) : InPriceRange(m)

\* C8: the groups produced for one query partition the products fetched for
\* grouping: every fetched product is in exactly one group.
C8_Partition ==
    Returned =>
        \A id \in Range(gcall.products) :
            Cardinality({g \in 1..Len(ggroups) : id \in Members(ggroups[g])}) = 1

\* the similarity of the core (base) names alone reaches the rule threshold 0.75
CoreNamesSimilar(a, b) ==
    LET r == FuzzRatio(Catalog[a].ident.base_name, Catalog[b].ident.base_name)
    IN  100 * r[1] >= 75 * r[2]

\* C9: the rule-based merge decision puts two products in the same group only
\* if the similarity of their core names by itself reaches the threshold
\* (ML not loaded, so that every merge is a rule-based one; products with a
\* grouping key, which the rule-based decision compares).
C9_CoreNameDecides ==
    (Returned /\ gcall.engine = "pg" /\ ~gcall.ml.loaded) =>
        \A g \in 1..Len(ggroups) : \A a, b \in Members(ggroups[g]) :
            (KeyOf[a] # <<>> /\ KeyOf[b] # <<>>) => CoreNamesSimilar(a, b)

(***************************************************************************)
(* search with the result cache (PharmaSearchEngine.search and             *)
(* DuckDBPharmaSearchEngine.search)                                        *)
(***************************************************************************)
\* max_age of _is_cache_valid, in seconds
CacheTTL == 300
\* len(self._search_cache) > 1000
CacheCapacity == 1000
\* list(self._search_cache.keys())[:-500]: the number of entries kept
CacheKeep == 500

\* str.lower() on the characters that occur in the queries
Lower(str) ==
    [i \in 1..Len(str) |->
        IF str[i] = "V" THEN "v"
        ELSE IF str[i] = "C" THEN "c"
        ELSE IF str[i] = "P" THEN "p"
        ELSE str[i]]

RECURSIVE LStrip(_)
LStrip(str) == IF str # <<>> /\ Head(str) = " " THEN LStrip(Tail(str)) ELSE str

RECURSIVE RStrip(_)
RStrip(str) ==
    IF str # <<>> /\ str[Len(str)] = " " THEN RStrip(SubSeq(str, 1, Len(str) - 1)) ELSE str

\* str.strip()
Strip(str) == RStrip(LStrip(str))

\* _get_cache_key: the md5 of the JSON of key_data, kept as key_data itself
\* (`filters or {}`: no filters and an empty dict are both NoFilters)
get_cache_key(query, filters, limit, offset, search_type) ==
    [query |-> Strip(Lower(query)), filters |-> filters, limit |-> limit,
     offset |-> offset, search_type |-> search_type]

\* the validity test with the boundary included: an entry of age max_age is valid
is_cache_valid_inclusive(timestamp, t) == t - timestamp <= CacheTTL

\* _is_cache_valid at clock reading t for an entry stamped `timestamp`
is_cache_valid(timestamp, t) == t - timestamp < CacheTTL

\* cache_key in self._search_cache
InCache(c, key) == \E i \in 1..Len(c) : c[i].key = key

\* self._search_cache[cache_key]
CacheGet(c, key) == c[CHOOSE i \in 1..Len(c) : c[i].key = key]

\* del self._search_cache[cache_key]
CacheDel(c, key) == SelectSeq(c, LAMBDA e : e.key # key)

\* the store as an append of the entry, whether or not the key is present
CachePutAppend(c, key, result, timestamp) ==
    Append(c, [key |-> key, result |-> result, timestamp |-> timestamp])

\* self._search_cache[cache_key] = {...}: a key already present keeps its
\* place in the dict order, a new key goes last
CachePut(c, key, result, timestamp) ==
    LET entry == [key |-> key, result |-> result, timestamp |-> timestamp]
    IN  IF InCache(c, key)
        THEN [i \in 1..Len(c) |-> IF c[i].key = key THEN entry ELSE c[i]]
        ELSE Append(c, entry)

\* old_keys = list(self._search_cache.keys())[:-500] when the length exceeds
\* 1000: the entries the cleaning step deletes from c
evicted_entries(c) ==
    IF Len(c) > CacheCapacity THEN SubSeq(c, 1, Len(c) - CacheKeep) ELSE <<>>

\* the cleaning step with the test len(self._search_cache) > 1001
clean_old_entries_late(c) ==
    IF Len(c) > CacheCapacity + 1 THEN SubSeq(c, Len(c) - CacheKeep + 1, Len(c)) ELSE c

\* "Clean old cache entries": beyond the capacity every key but the last
\* CacheKeep ones is deleted
clean_old_entries(c) ==
    IF Len(c) > CacheCapacity THEN SubSeq(c, Len(c) - CacheKeep + 1, Len(c)) ELSE c

\* the cache after `result` was stored at clock reading t
StoreResult(c, key, result, t) == clean_old_entries(CachePut(c, key, result, t))

(***************************************************************************)
(* PharmaSearchEngine._db_search_groups_enhanced                           *)
(***************************************************************************)
\* position($1 in lower(p.title)) <= 5; position is 0 when $1 does not occur
PositionAtMost5(text, q) ==
    \/ ~Contains(text, q)
    \/ \E i \in 0..Min2(4, Len(text) - Len(q)) : SubSeq(text, i + 1, i + Len(q)) = q

\* the CASE of the ORDER BY in _fallback_short_query_search
FallbackCase(id, q) ==
    IF StartsWith(Catalog[id].title, q) THEN 1
    ELSE IF SqlPrefix(Catalog[id].normalizedName, q) THEN 2
    ELSE IF PositionAtMost5(Catalog[id].title, q) THEN 3
    ELSE 4

\* the ids _fallback_short_query_search selects with its ILIKE conditions on
\* title, normalizedName and brand name, ORDER BY the CASE, then p.id.  (The
\* searchTokens and trigram conditions can only add rows; for the empty
\* query '%%' already selects every row.)
fallback_product_ids(q) ==
    LET selected == {id \in ProductIds :
                        \/ Contains(Catalog[id].title, q)
                        \/ SqlContains(Catalog[id].normalizedName, q)
                        \/ Contains(Catalog[id].brand_name, q)}
    IN  CHOOSE rows \in Perms(selected) :
            \A i \in 1..(Len(rows) - 1) :
                \/ FallbackCase(rows[i], q) < FallbackCase(rows[i + 1], q)
                \/ /\ FallbackCase(rows[i], q) = FallbackCase(rows[i + 1], q)
                   /\ rows[i] < rows[i + 1]

\* the pages _create_dynamic_groups can return for product_ids: one for every
\* order in which the rows can be fetched
DynamicGroupPages(product_ids, filters, ml, limit, offset) ==
    {create_dynamic_groups(products, product_ids, ml, limit, offset) :
        products \in FetchForGrouping(product_ids, filters)}

\* _fallback_short_query_search(query, filters, limit, offset)
\* _fallback_short_query_search once product_ids is known
FallbackPages(product_ids, filters, ml, limit, offset) ==
    IF product_ids = <<>> THEN {EmptyPage(offset, limit)}
    ELSE DynamicGroupPages(product_ids, filters, ml, limit, offset)

fallback_short_query_search(q, filters, ml, limit, offset) ==
    FallbackPages(fallback_product_ids(q), filters, ml, limit, offset)

\* _db_search_groups_enhanced(query, filters, limit, offset): the pages it can
\* return when _get_exact_matches returned exact_matches
db_search_groups_enhanced(query, filters, limit, offset, exact_matches, ml) ==
    LET query_lower == Strip(Lower(query))
    IN  IF exact_matches = <<>>
        THEN IF Len(query_lower) <= 3
             THEN fallback_short_query_search(query_lower, filters, ml, limit, offset)
             ELSE {EmptyPage(offset, limit)}
        ELSE DynamicGroupPages(exact_matches, filters, ml, limit, offset)

\* DuckDBPharmaSearchEngine._search_with_grouping: the pages it can return
\* when the database behaves as db
duck_search_pages(query, filters, limit, offset, db) ==
    LET query_lower == Strip(Lower(query))
    IN  {search_with_grouping(matches, query_lower, limit, offset) :
            matches \in DuckMatches(query_lower, filters, db)}

\* the dict _search_products returns: "products" in the place of "groups"
ProductsPage(products, total, offset, limit) ==
    [products |-> products, total |-> total, offset |-> offset, limit |-> limit]

\* the characters of the texts that are no word characters of a regex
NonWordChars == {" ", "-", "|"}

\* col ~* ('\m' || q || '\M') on lower-cased text: q occurs in col, starting
\* at the beginning of a word and ending at the end of a word
RegexWord(col, q) ==
    /\ col # NoText
    /\ q # <<>>
    /\ q[1] \notin NonWordChars
    /\ q[Len(q)] \notin NonWordChars
    /\ \E i \in 0..(Len(col) - Len(q)) :
          /\ SubSeq(col, i + 1, i + Len(q)) = q
          /\ i = 0 \/ col[i] \in NonWordChars
          /\ i + Len(q) = Len(col) \/ col[i + Len(q) + 1] \in NonWordChars

\* search_clause of PharmaSearchEngine._search_products; "searchTokens" holds
\* the words of the title and of its parts, which the regex on the title
\* matches already (tokens added as synonyms are left out)
ProductMatches(id, q) ==
    \/ RegexWord(Catalog[id].title, q)
    \/ RegexWord(Catalog[id].normalizedName, q)
    \/ RegexWord(Catalog[id].brand_name, q)

\* PharmaSearchEngine._search_products(query, filters, limit, offset): the
\* pages it can return, one for every order of the rows of equal price
search_products(query, filters, limit, offset) ==
    LET matching == {id \in ProductIds : ProductMatches(id, Lower(query))}
        selected == {id \in matching : PassesFilters(id, filters)}
    IN  {ProductsPage(Slice(rows, offset, offset + limit), Cardinality(selected),
                      offset, limit) :
            rows \in {r \in Perms(selected) :
                        \A i \in 1..(Len(r) - 1) :
                            Catalog[r[i]].price <= Catalog[r[i + 1]].price}}

\* DuckDBPharmaSearchEngine._search_products: matches[offset:offset + limit]
\* of the rows of _get_fts_matches, which gets the query as it was passed
duck_search_products(query, filters, limit, offset, db) ==
    {ProductsPage(Slice(matches, offset, offset + limit), Len(matches), offset, limit) :
        matches \in DuckMatches(Lower(query), filters, db)}

(***************************************************************************)
(* Spec: concurrent calls of search on one engine over every bounded       *)
(* database answer.  SpecCache: the same calls with the clock running and  *)
(* a cache that earlier calls have filled.                                 *)
(***************************************************************************)
\* the longest list of rows fast_product_search returns
MaxExact == 2
\* the last clock reading
MaxTime == 300
\* the steps of the clock: they reach the ages 150 (half the TTL) and 300 (the TTL)
TickSteps == {150}

\* the products fast_product_search returns rows of
SearchIds == {3, 4, 6}

\* fast_product_search is a function of the database: what it returns for
\* the query is part of the fixed data
ExactMatchLists == SeqsNoDup(SearchIds, MaxExact)

SearchQueries == {q_empty, q_vitamin}
SearchML == {MLNone, MLClustered}

\* the query strings as the caller passes them
RawQuerySet ==
    {<<" ">>, <<" ", "V", "i", "t", "a", "m", "i", "n", " ">>}

RawQueriesOf(q) == {raw \in RawQuerySet : Strip(Lower(raw)) = q}

SearchFilters == {NoFilters, Filters(10, 20, NoVendors)}

\* <<limit, offset>> of the calls: the defaults of search
SearchPagings == {<<5000, 0>>}

\* n entries that earlier calls with other keys left in the cache
Prefilled(n) ==
    [i \in 1..n |-> [key |-> get_cache_key(<<"#">>, NoFilters, i, 0, "hybrid"),
                     result |-> EmptyPage(0, i), timestamp |-> 0]]

\* the same n entries, the oldest of them (first in the dict) being the page
\* an earlier call of the engine stored for the query 'vitamin' without filters
PrefilledKnown(n, eng) ==
    [i \in 1..n |->
        IF i = 1
        THEN [key |-> get_cache_key(s_vitamin, NoFilters, 5000, 0,
                                    IF eng = "pg" THEN "hybrid" ELSE "auto"),
              result |-> EmptyPage(0, 5000), timestamp |-> 0]
        ELSE Prefilled(n)[i]]

NoCall == GroupCall("none", <<>>, <<>>, <<>>, NoFilters, MLNone, "ok", <<0, 0>>)

CallKey(call, search_type) ==
    get_cache_key(call.raw, call.filters, call.limit, call.offset, search_type)

\* the state after construction (self._search_cache = {}) or, with n > 0,
\* after n earlier calls
SearchInit(queries, exact_lists, ml_states, prefills, known_prefills, group_flags) ==
    /\ gcall = NoCall
    /\ ggroups = <<>>
    /\ gpage = NoPage
    /\ engine \in {"pg", "duckdb"}
    /\ snapshot \in {sn \in [query : queries, exact : exact_lists, ml : ml_states] :
                        engine = "duckdb" => (sn.exact = <<>> /\ sn.ml = MLNone)}
    /\ cache \in {Prefilled(n) : n \in prefills}
                \cup {PrefilledKnown(n, engine) : n \in known_prefills}
    /\ now = 0
    /\ calls \in {[t \in Tasks |-> [IdleCall EXCEPT !.group_results = g[t]]] :
                    g \in group_flags}
    /\ HeapEmpty
    /\ IndexIdle
    /\ fcall = NoFn
    /\ PoolIdle
    /\ proc = NoRun

\* group_results of the calls: True in all of them (the search handler), or
\* False in one of them (the CSV export)
AllGrouped == [t \in Tasks |-> TRUE]
OneExport == [t \in Tasks |-> t # "t2"]

\* Spec: every query and database answer, an empty cache
Init ==
    SearchInit(SearchQueries, ExactMatchLists, SearchML, {0}, {}, {AllGrouped, OneExport})

\* SpecCache: one query, no rows or two rows from fast_product_search, an
\* empty cache, a cache one entry below its capacity and a cache at its
\* capacity, the latter also with an entry of the query as its oldest
CacheInit ==
    SearchInit({q_vitamin}, {<<>>, <<3, 4>>}, {MLNone},
               {0, CacheCapacity - 1, CacheCapacity}, {CacheCapacity}, {AllGrouped})

\* the result dict the cache entry of the key refers to: the one a call of
\* this run created, "old" for an entry of an earlier call
CachedObject(key, search_type) ==
    IF \E o \in Tasks : heap[o].cached /\ CallKey(calls[o], search_type) = key
    THEN CHOOSE o \in Tasks : heap[o].cached /\ CallKey(calls[o], search_type) = key
    ELSE "old"

\* the heap once the cache is c: a dict whose key has left the cache is no
\* longer referred to by it
StillCached(h, c, search_type) ==
    [o \in Tasks |->
        [h[o] EXCEPT !.cached = @ /\ InCache(c, CallKey(calls[o], search_type))]]

\* the heap after call t created its result dict and
\* `self._search_cache[cache_key] = {"result": result, ...}` made the entry of
\* its key refer to it (and to no other dict)
NewObject(t, search_type, type_used) ==
    [o \in Tasks |->
        IF o = t THEN [search_type_used |-> type_used, cached |-> TRUE]
        ELSE [heap[o] EXCEPT !.cached =
                @ /\ CallKey(calls[o], search_type) # CallKey(calls[t], search_type)]]

\* the search_type_used of the dict _db_search_groups_enhanced returns: the
\* page of the grouped products says "dynamic", the three empty pages
\* (lines 163, 357 and 399) have no such key
TypeUsedOf(result) ==
    IF "products" \in DOMAIN result \/ result.total = 0 THEN "absent" ELSE "dynamic"

\* search up to its first await: the cache key, the cache check, the hit
\* returned or the expired entry removed (PharmaSearchEngine deletes it,
\* DuckDBPharmaSearchEngine leaves it in place)
Lookup(t, search_type, delete_expired) ==
    /\ calls[t].pc = "idle"
    /\ \E raw \in RawQueriesOf(snapshot.query), filters \in SearchFilters,
          paging \in SearchPagings :
          LET cache_key == get_cache_key(raw, filters, paging[1], paging[2], search_type)
              found == InCache(cache, cache_key)
              cache_entry == CacheGet(cache, cache_key)
              valid == found /\ is_cache_valid(cache_entry.timestamp, now)
          IN  /\ calls' = [calls EXCEPT ![t] =
                    [pc |-> IF valid THEN "done" ELSE "searching",
                     raw |-> raw, filters |-> filters,
                     limit |-> paging[1], offset |-> paging[2],
                     found |-> found,
                     age |-> IF found THEN now - cache_entry.timestamp ELSE 0,
                     hit |-> valid, db |-> "ok",
                     page |-> IF valid THEN cache_entry.result ELSE NoPage,
                     group_results |-> calls[t].group_results]]
              /\ cache' = IF found /\ ~valid /\ delete_expired
                          THEN CacheDel(cache, cache_key) ELSE cache
              /\ held' = [held EXCEPT ![t] =
                            IF valid THEN CachedObject(cache_key, search_type) ELSE "none"]
    /\ heap' = StillCached(heap, cache', search_type)
    /\ UNCHANGED <<gvars, engine, snapshot, now, ivars, fcall, pvars, proc>>

\* PharmaSearchEngine.search, lines 107-122
PgLookup(t) == engine = "pg" /\ Lookup(t, "hybrid", TRUE)

\* PharmaSearchEngine.search from the completion of
\* `await self._db_search_groups_enhanced(...)` to the return
PgStore(t) ==
    /\ engine = "pg"
    /\ calls[t].pc = "searching"
    /\ \E result \in
            IF calls[t].group_results
            THEN db_search_groups_enhanced(calls[t].raw, calls[t].filters, calls[t].limit,
                                           calls[t].offset, snapshot.exact, snapshot.ml)
            ELSE search_products(calls[t].raw, calls[t].filters, calls[t].limit,
                                 calls[t].offset) :
          /\ cache' = StoreResult(cache, CallKey(calls[t], "hybrid"), result, now)
          /\ calls' = [calls EXCEPT ![t].pc = "done", ![t].page = result]
          /\ heap' = StillCached(
                        NewObject(t, "hybrid", TypeUsedOf(result)),
                        cache', "hybrid")
    /\ held' = [held EXCEPT ![t] = t]
    /\ UNCHANGED <<gvars, engine, snapshot, now, ivars, fcall, pvars, proc>>

\* DuckDBPharmaSearchEngine.search, lines 147-155
DuckLookup(t) == engine = "duckdb" /\ Lookup(t, "auto", FALSE)

\* DuckDBPharmaSearchEngine.search from the completion of
\* `await self._search_with_grouping(...)` to the return
DuckStore(t) ==
    /\ engine = "duckdb"
    /\ calls[t].pc = "searching"
    /\ \E db \in DbOutcomes :
       \E result \in
            IF calls[t].group_results
            THEN duck_search_pages(calls[t].raw, calls[t].filters, calls[t].limit,
                                   calls[t].offset, db)
            ELSE duck_search_products(calls[t].raw, calls[t].filters, calls[t].limit,
                                      calls[t].offset, db) :
          /\ cache' = StoreResult(cache, CallKey(calls[t], "auto"), result, now)
          /\ calls' = [calls EXCEPT ![t].pc = "done", ![t].page = result, ![t].db = db]
    /\ heap' = StillCached(NewObject(t, "auto", "auto"), cache', "auto")
    /\ held' = [held EXCEPT ![t] = t]
    /\ UNCHANGED <<gvars, engine, snapshot, now, ivars, fcall, pvars, proc>>

\* the handler of GET /api/search after `await search_engine.search(...)`:
\* results["search_type_used"] = ... on the dict search returned, then the
\* response is sent
ApiReturn(t) ==
    /\ engine = "pg"
    /\ calls[t].pc = "done"
    /\ calls[t].group_results
    /\ calls' = [calls EXCEPT ![t].pc = "returned"]
    /\ heap' = IF held[t] \in Tasks
                THEN [heap EXCEPT ![held[t]].search_type_used = "hybrid"]
                ELSE heap
    /\ UNCHANGED <<gvars, engine, snapshot, cache, now, held, ivars, fcall, pvars, proc>>

\* time passes
Tick ==
    /\ \E d \in TickSteps : now + d <= MaxTime /\ now' = now + d
    /\ UNCHANGED <<gvars, engine, snapshot, cache, calls, heap, held, ivars, fcall, pvars, proc>>

Next ==
    \/ \E t \in Tasks : PgLookup(t)
    \/ \E t \in Tasks : PgStore(t)
    \/ \E t \in Tasks : DuckLookup(t)
    \/ \E t \in Tasks : DuckStore(t)
    \/ \E t \in Tasks : ApiReturn(t)

Spec == Init /\ [][Next]_vars

CacheNext ==
    \/ \E t \in Tasks : PgLookup(t)
    \/ \E t \in Tasks : PgStore(t)
    \/ \E t \in Tasks : DuckLookup(t)
    \/ \E t \in Tasks : DuckStore(t)
    \/ Tick

SpecCache == CacheInit /\ [][CacheNext]_vars

(***************************************************************************)
(* SpecIndex: the global ML preprocessor (ml_preprocessor.py).             *)
(* initialize_ml_preprocessor runs as one asyncio task; its only real      *)
(* suspension is the database query of _load_training_data, everything     *)
(* else between two awaits is one step.  get_ml_preprocessor is called by  *)
(* the grouping stage of any concurrent search.                            *)
(***************************************************************************)
\* the calls of initialize_ml_preprocessor in one run
MaxBuilds == 2

\* the keys of the embeddings saved in product_embeddings.pt
StoredEmbeddings == {1, 2, 3, 4, 6}

\* the keys converted before an entry of the file fails to convert
PartialEmbeddings == {1, 2}

\* the ids of the rows _load_training_data can return
TrainingRows == {{}, StoredEmbeddings, ProductIds}

\* MLEnhancedPreprocessor.__init__: encoder = None, product_embeddings = {};
\* built says that initialize has returned on the instance
NewInstance == [encoder |-> FALSE, emb |-> {}, built |-> FALSE]

\* no call of search or of the grouping stage is under way
EngineIdle ==
    /\ gcall = NoCall
    /\ ggroups = <<>>
    /\ gpage = NoPage
    /\ engine = "pg"
    /\ snapshot = NoSnapshot
    /\ cache = <<>>
    /\ now = 0
    /\ calls = [t \in Tasks |-> IdleCall]
    /\ HeapEmpty

IndexInit == EngineIdle /\ IndexIdle /\ fcall = NoFn /\ PoolIdle /\ proc = NoRun

\* what _load_models leaves in the instance: everything loaded ("ok"),
\* torch.load of the encoder or of the embeddings raising, or an entry of the
\* embeddings file failing after some were converted
LoadOutcomes == {"ok", "no_encoder", "no_embeddings", "bad_entry"}

load_models(outcome) ==
    [encoder |-> TRUE,
     emb |-> IF outcome = "ok" THEN StoredEmbeddings
             ELSE IF outcome = "bad_entry" THEN PartialEmbeddings
             ELSE {},
     built |-> outcome = "ok"]

\* initialize_ml_preprocessor(force_retrain) when the model files exist and
\* force_retrain is False: the global is assigned, then _load_models runs
\* without suspending and returns or raises
InitLoad ==
    /\ init.pc = "idle"
    /\ Len(instances) < MaxBuilds
    /\ \E outcome \in LoadOutcomes :
          /\ instances' = Append(instances, load_models(outcome))
          /\ init' = [pc |-> IF outcome = "ok" THEN "done" ELSE "failed",
                      inst |-> Len(instances) + 1, prev |-> ml_preprocessor]
    /\ ml_preprocessor' = Len(instances) + 1
    /\ UNCHANGED <<gvars, svars, reader, fcall, pvars, proc>>

\* initialize_ml_preprocessor(force_retrain) when it trains: the global is
\* assigned, _train_models creates the encoder and either returns at once
\* (DATABASE_URL not set; _save_models follows) or awaits _load_training_data
InitTrain ==
    /\ init.pc = "idle"
    /\ Len(instances) < MaxBuilds
    /\ \E has_db_url \in BOOLEAN :
          /\ instances' = Append(instances,
                [NewInstance EXCEPT !.encoder = TRUE, !.built = ~has_db_url])
          /\ init' = [pc |-> IF has_db_url THEN "training" ELSE "done",
                      inst |-> Len(instances) + 1, prev |-> ml_preprocessor]
    /\ ml_preprocessor' = Len(instances) + 1
    /\ UNCHANGED <<gvars, svars, reader, fcall, pvars, proc>>

\* _train_models from the completion of `await self._load_training_data(...)`:
\* the query raised, or returned rows (no rows: return; otherwise one
\* embedding per row), then _save_models and the return of initialize
InitTrainData ==
    /\ init.pc = "training"
    /\ \/ /\ init' = [init EXCEPT !.pc = "failed"]
          /\ UNCHANGED instances
       \/ \E rows \in TrainingRows :
             /\ instances' = [instances EXCEPT ![init.inst].emb = rows,
                                                 ![init.inst].built = TRUE]
             /\ init' = [init EXCEPT !.pc = "done"]
    /\ UNCHANGED <<gvars, svars, ml_preprocessor, reader, fcall, pvars, proc>>

\* the caller of initialize_ml_preprocessor has the instance or the exception
InitReturn ==
    /\ init.pc \in {"done", "failed"}
    /\ init' = [init EXCEPT !.pc = "idle"]
    /\ UNCHANGED <<gvars, svars, ml_preprocessor, instances, reader, fcall, pvars, proc>>

\* get_ml_preprocessor() and the use of the instance by the grouping stage
\* (`if not self.product_embeddings`, `pid in self.product_embeddings`)
GetMLPreprocessor ==
    /\ reader' =
          [pc |-> "read",
           inst |-> ml_preprocessor,
           emb |-> IF ml_preprocessor = 0 THEN {} ELSE instances[ml_preprocessor].emb,
           during |-> init.pc = "training",
           built |-> ml_preprocessor = 0 \/ instances[ml_preprocessor].built]
    /\ UNCHANGED <<gvars, svars, ml_preprocessor, instances, init, fcall, pvars, proc>>

IndexNext ==
    \/ InitLoad
    \/ InitTrain
    \/ InitTrainData
    \/ InitReturn
    \/ GetMLPreprocessor

SpecIndex == IndexInit /\ [][IndexNext]_vars

(***************************************************************************)
(* SpecFn: functions of the candidate, matching and grouping tiers applied *)
(* to every bounded input.                                                 *)
(***************************************************************************)
\* search_limit = min(limit * 5, 300) of _get_exact_matches
search_limit(limit) == Min2(limit * 5, 300)

\* the product_ids with which _db_search_groups_enhanced calls
\* _create_dynamic_groups, directly or through _fallback_short_query_search;
\* <<>> when it returns without grouping
handed_product_ids(query, exact_matches) ==
    IF exact_matches # <<>> THEN exact_matches
    ELSE IF Len(Strip(Lower(query))) <= 3
    THEN fallback_product_ids(Strip(Lower(query)))
    ELSE <<>>

\* limit as the handler of /api/search passes it: its minimum and its default
ApiLimits == {1, 20}

\* the calls of _db_search_groups_enhanced: an empty, a short and a long
\* query, and what _get_exact_matches returned for it
DbSearchCalls ==
    {[fn |-> "db_search", pc |-> "called", query |-> q, limit |-> l, exact |-> e,
      handed |-> <<>>] :
        q \in {<<" ">>, <<"C">>, s_vitamin}, l \in ApiLimits, e \in ExactMatchLists}

(***************************************************************************)
(* SimilarityMatcher (similarity_matcher.py).  A hit is [id, score] with   *)
(* the score in percent; the name of a hit follows from its id.            *)
(***************************************************************************)
\* the sequences over S of length 0..n
SeqsUpTo(S, n) == UNION {[1..m -> S] : m \in 0..n}

\* effective_threshold of find_similar_products, in percent
effective_threshold(query_len, thresholdPct) ==
    IF query_len <= 2 THEN Max2(20, (thresholdPct * 3) \div 10)
    ELSE IF query_len <= 4 THEN Max2(40, (thresholdPct * 6) \div 10)
    ELSE thresholdPct

\* best_scores with every entry of a past hit's id overwritten by the hit
KeepLast(best, hit) ==
    IF \E i \in 1..Len(best) : best[i].id = hit.id
    THEN [i \in 1..Len(best) |-> IF best[i].id = hit.id THEN hit ELSE best[i]]
    ELSE Append(best, hit)

\* `if product_id not in best_scores or score > best_scores[product_id]`:
\* best_scores (a dict, in insertion order) after one hit
KeepBest(best, hit) ==
    IF \E i \in 1..Len(best) : best[i].id = hit.id
    THEN [i \in 1..Len(best) |->
            IF best[i].id = hit.id /\ hit.score > best[i].score THEN hit ELSE best[i]]
    ELSE Append(best, hit)

RECURSIVE BestScores(_, _)
BestScores(all_results, best) ==
    IF all_results = <<>> THEN best
    ELSE BestScores(Tail(all_results), KeepBest(best, Head(all_results)))

\* combined.sort(key=lambda x: x[1], reverse=True): stable, highest score first
SortByScoreDesc(hits) ==
    LET keyed == [i \in 1..Len(hits) |-> [k1 |-> 0 - hits[i].score, k2 |-> 0, v |-> hits[i]]]
        sorted == StableSort(keyed, <<>>)
    IN  [i \in 1..Len(sorted) |-> sorted[i].v]

\* _combine_and_deduplicate_results(all_results, threshold)
combine_and_deduplicate_results(all_results, thresholdPct) ==
    SortByScoreDesc(SelectSeq(BestScores(all_results, <<>>),
                              LAMBDA hit : hit.score >= thresholdPct))

\* find_similar_products from the three result lists on: combined[:k]
find_similar_products(exact_word_matches, fuzzy_results, semantic_results, query_len, k, thresholdPct) ==
    Slice(combine_and_deduplicate_results(
              exact_word_matches \o fuzzy_results \o semantic_results,
              effective_threshold(query_len, thresholdPct)),
          0, k)

\* the hits one tier returns for a query
MaxTierHits == 1

\* scores below and above the default threshold of 0.8
HitScores == {50, 90}
Hits == [id : {1, 2}, score : HitScores]
TierResults == SeqsUpTo(Hits, MaxTierHits)

\* the calls of find_similar_products: a query of 2 and of 7 characters, k = 1
\* and the default k = 10, the default threshold
SimilarCalls(tier_results) ==
    {[fn |-> "find_similar", pc |-> "called", exact |-> e, fuzzy |-> f, semantic |-> m,
      query_len |-> n, k |-> k, threshold |-> 80, cutoff |-> 0, result |-> <<>>] :
        e \in tier_results, f \in tier_results, m \in tier_results, n \in {2, 7}, k \in {1, 10}}

\* the caller's threshold in percent: 0.0, 0.1, ..., 1.0
CallerThresholds == {10 * i : i \in 0..10}

\* the calls of find_similar_products with every caller threshold, for
\* queries of 0..6 characters, one hit found by the exact-word tier
ThresholdCalls ==
    {[fn |-> "find_similar", pc |-> "called", exact |-> <<h>>, fuzzy |-> <<>>,
      semantic |-> <<>>, query_len |-> n, k |-> 10, threshold |-> t, cutoff |-> 0,
      result |-> <<>>] :
        h \in Hits, n \in 0..6, t \in CallerThresholds}

(***************************************************************************)
(* The grouping decisions _should_group_dynamically and                    *)
(* _should_group_enhanced (search_engine.py).  The three rapidfuzz scores  *)
(* of the two cores enter as their maximum, a whole number of percent.     *)
(***************************************************************************)
\* str.split(): the words of s between runs of spaces
Words(s) == SelectSeq(Split(s, " "), LAMBDA w : w # <<>>)

\* set(s.split())
WordSet(s) == {Words(s)[i] : i \in 1..Len(Words(s))}

brand_names ==
    {<<"p", "a", "m", "p", "e", "r", "s">>,
     <<"h", "u", "g", "g", "i", "e", "s">>,
     <<"n", "i", "v", "e", "a">>,
     <<"l", "o", "r", "e", "a", "l">>,
     <<"g", "a", "r", "n", "i", "e", "r">>,
     <<"j", "o", "h", "n", "s", "o", "n">>,
     <<"c", "e", "t", "a", "p", "h", "i", "l">>,
     <<"n", "e", "u", "t", "r", "o", "g", "e", "n", "a">>}

\* "c_acute" is the one character c with an acute accent
distinguishing_features ==
    {<<"n", "e", "w", "b", "o", "r", "n">>,
     <<"m", "i", "n", "i">>,
     <<"m", "i", "d", "i">>,
     <<"j", "u", "n", "i", "o", "r">>,
     <<"m", "a", "x", "i">>,
     <<"x", "l">>,
     <<"x", "x", "l">>,
     <<"x", "s">>,
     <<"s">>,
     <<"m">>,
     <<"l">>,
     <<"p", "e", "l", "e", "n", "e">>,
     <<"g", "a", "c_acute", "i", "c", "e">>,
     <<"p", "a", "n", "t", "s">>,
     <<"c", "a", "r", "e">>,
     <<"p", "r", "o", "t", "e", "c", "t">>,
     <<"a", "c", "t", "i", "v", "e">>,
     <<"p", "r", "e", "m", "i", "u", "m">>,
     <<"h", "a", "r", "m", "o", "n", "i", "e">>,
     <<"s", "e", "n", "s", "i", "t", "i", "v", "e">>,
     <<"f", "r", "e", "s", "h">>,
     <<"a", "q", "u", "a">>,
     <<"c", "l", "e", "a", "n">>,
     <<"d", "r", "y">>,
     <<"b", "a", "b", "y">>,
     <<"a", "d", "u", "l", "t">>,
     <<"l", "a", "r", "g", "e">>,
     <<"m", "e", "d", "i", "u", "m">>,
     <<"s", "m", "a", "l", "l">>,
     <<"e", "x", "t", "r", "a">>,
     <<"s", "u", "p", "e", "r">>,
     <<"u", "l", "t", "r", "a">>,
     <<"s", "o", "f", "t">>,
     <<"c", "o", "m", "f", "o", "r", "t">>}

\* the threshold of _should_group_dynamically for a query of query_specificity words
dynamic_threshold(query_specificity) ==
    IF query_specificity <= 1 THEN 70
    ELSE IF query_specificity <= 2 THEN 75
    ELSE 80

\* the threshold of _should_group_enhanced for a query of query_specificity words
enhanced_threshold(query_specificity) ==
    IF query_specificity <= 1 THEN 65
    ELSE IF query_specificity <= 2 THEN 70
    ELSE 75

\* the brand branch of _should_group_dynamically: both cores hold the brand
brand_group(core1_features, core2_features, max_similarity) ==
    IF core1_features # core2_features /\ (core1_features # {} \/ core2_features # {})
    THEN max_similarity >= 85 /\ core1_features \cap core2_features # {}
    ELSE max_similarity >= 80

should_group_dynamically(core1, core2, query, max_similarity) ==
    IF Strip(core1) = <<>> \/ Strip(core2) = <<>> THEN FALSE
    ELSE IF core1 = core2 THEN TRUE
    ELSE IF /\ Lower(query) \in brand_names
            /\ Contains(Lower(core1), Lower(query))
            /\ Contains(Lower(core2), Lower(query))
    THEN brand_group(WordSet(core1) \cap distinguishing_features,
                     WordSet(core2) \cap distinguishing_features, max_similarity)
    ELSE max_similarity >= dynamic_threshold(Len(Words(query)))

\* `for query_word in query_words`: a word of more than two characters of a
\* query of several words is missing in one of the cores
query_word_missing(core1, core2, query) ==
    /\ Cardinality(WordSet(Lower(query))) > 1
    /\ \E query_word \in WordSet(Lower(query)) :
          /\ Len(query_word) > 2
          /\ ~Contains(Lower(core1), query_word) \/ ~Contains(Lower(core2), query_word)

\* fuzz.ratio(size1, size2) < 70 for two different size_age texts that are both set
sizes_incompatible(size1, size2) ==
    /\ size1 # <<>>
    /\ size2 # <<>>
    /\ size1 # size2
    /\ FuzzRatio(size1, size2)[1] * 100 < 70 * FuzzRatio(size1, size2)[2]

should_group_enhanced(identity1, identity2, query, core_similarity) ==
    IF identity1.core = identity2.core THEN TRUE
    ELSE IF /\ identity1.brand # <<>>
            /\ identity2.brand # <<>>
            /\ identity1.brand # identity2.brand THEN FALSE
    ELSE IF /\ identity1.category # <<>>
            /\ identity2.category # <<>>
            /\ identity1.category # identity2.category THEN FALSE
    ELSE IF query_word_missing(identity1.core, identity2.core, query) THEN FALSE
    ELSE IF sizes_incompatible(identity1.size_age, identity2.size_age) THEN FALSE
    ELSE core_similarity >= enhanced_threshold(Len(Words(query)))

s_baby == <<"b", "a", "b", "y">>
s_maxi_word == <<"m", "a", "x", "i">>
s_mini_word == <<"m", "i", "n", "i">>
s_baby_care == <<"b", "a", "b", "y", "_", "c", "a", "r", "e">>
c_pampers_baby == s_pampers \o <<" ">> \o s_baby
c_pampers_baby_maxi == c_pampers_baby \o <<" ">> \o s_maxi_word
c_pampers_2 == s_pampers \o <<" ", "2">>
c_vitamin_c == s_vitamin \o <<" ", "c">>
c_vitamin_d == s_vitamin \o <<" ", "d">>

\* queries of one, two and three words, with and without a brand name
GroupingQueries ==
    {s_pampers, <<"P">> \o Tail(s_pampers), s_vitamin, c_vitamin_c, c_pampers_baby,
     c_vitamin_c \o <<" ", "5", "0", "0">>}

\* core names: empty, a brand alone, with one and two distinguishing
\* features, with a word that is no feature, and two that differ in a letter
GroupingCores ==
    {<<>>, s_pampers, c_pampers_2, c_pampers_baby, c_pampers_baby_maxi,
     c_vitamin_c, c_vitamin_d}

\* identities as _extract_enhanced_product_identity builds them
GroupingIdentities ==
    {[core |-> c_pampers_baby, brand |-> s_pampers, category |-> s_baby_care,
      size_age |-> s_mini_word],
     [core |-> c_pampers_baby_maxi, brand |-> s_pampers, category |-> s_baby_care,
      size_age |-> s_maxi_word],
     [core |-> c_pampers_2, brand |-> s_pampers, category |-> <<>>, size_age |-> <<>>],
     [core |-> c_vitamin_c, brand |-> <<>>, category |-> s_vitamins, size_age |-> <<>>],
     [core |-> c_vitamin_d, brand |-> <<>>, category |-> s_vitamins, size_age |-> <<>>]}

\* similarity scores on both sides of every threshold of the two functions
Similarities == {64, 65, 69, 70, 74, 75, 79, 80, 84, 85}

DynamicCalls ==
    {[fn |-> "should_group_dynamically", pc |-> "called", core1 |-> c1, core2 |-> c2,
      query |-> q, similarity |-> s, result |-> FALSE] :
        c1 \in GroupingCores, c2 \in GroupingCores, q \in GroupingQueries,
        s \in Similarities}

EnhancedCalls ==
    {[fn |-> "should_group_enhanced", pc |-> "called", identity1 |-> i1, identity2 |-> i2,
      query |-> q, similarity |-> s, result |-> FALSE] :
        i1 \in GroupingIdentities, i2 \in GroupingIdentities, q \in GroupingQueries,
        s \in Similarities}

\* SimilarityMatcher.build_index up to the point where names and ids are set.
\* The products of the table and of the cache file: ids and normalised names
IndexIds == {1, 2}
IndexNames == {"aspirin", "brufen"}

\* lists of products with distinct ids
ProductLists ==
    {<<>>}
    \cup {<<[id |-> i, normalized_name |-> n]>> : i \in IndexIds, n \in IndexNames}
    \cup {ps \in {<<[id |-> i, normalized_name |-> n], [id |-> j, normalized_name |-> m]>> :
                      i \in IndexIds, j \in IndexIds, n \in IndexNames, m \in IndexNames} :
              ps[1].id # ps[2].id}

IdsOf(products) == [i \in DOMAIN products |-> products[i].id]
NamesOf(products) == [i \in DOMAIN products |-> products[i].normalized_name]

\* what the cache directory holds: nothing readable, or the metadata of an
\* index saved for an earlier list of products
NoFile == [found |-> FALSE, product_ids |-> <<>>, product_names |-> <<>>]
CacheFiles == {NoFile} \cup {[found |-> TRUE, product_ids |-> IdsOf(ps), product_names |-> NamesOf(ps)] : ps \in ProductLists}

\* load_index: False without changing the matcher when a file is missing or
\* unreadable, else the matcher takes ids and names from the metadata
load_index(file) == file.found

\* SimilarityMatcher.is_cache_valid: the loaded ids are not empty and, as a set, are the ids
\* of the products
index_cache_valid(product_ids, products) ==
    /\ product_ids # <<>>
    /\ Cardinality(Range(IdsOf(products))) = Cardinality(Range(product_ids))
    /\ Range(IdsOf(products)) = Range(product_ids)

\* the ids and names of the matcher when build_index returns; a new matcher
\* has none
build_index(products, use_cache, file) ==
    IF use_cache /\ load_index(file) /\ index_cache_valid(file.product_ids, products)
    THEN [product_ids |-> file.product_ids, product_names |-> file.product_names]
    ELSE [product_ids |-> IdsOf(products), product_names |-> NamesOf(products)]

BuildCalls ==
    {[fn |-> "build_index", pc |-> "called", products |-> ps, use_cache |-> u, file |-> f,
      product_ids |-> <<>>, product_names |-> <<>>] :
        ps \in ProductLists, u \in BOOLEAN, f \in CacheFiles}

\* _group_products_hybrid, called by _group_products_with_preprocessor when
\* there is no ML preprocessor or its clustering raised or found no cluster.
\* The products arrive in the order of their prices (ORDER BY p.price); the
\* two loops do not read the price, and every order of the candidates is the
\* price order of some price list, so the call is drawn with any order
HybridCalls(candidates) ==
    {call \in {[fn |-> "group_products_hybrid", pc |-> "called", products |-> c, ml |-> ml,
                groups_dict |-> <<>>] : c \in candidates, ml \in MLStates} :
        \/ ~call.ml.loaded
        \/ clustering_raises(call.ml, call.products)
        \/ get_ml_clusters(call.ml, call.products) = <<>>}

\* fast_product_search(query, NULL, NULL, NULL, NULL, max_results) ORDER BY
\* relevance_score DESC: the function is defined in the database; as the
\* candidate ceiling of the matching tier it returns the max_results most
\* relevant of the matching rows.  ranked is the list of all matching ids
\* by falling relevance
fast_product_search(ranked, max_results) == SubSeq(ranked, 1, Min2(Len(ranked), max_results))

\* _get_exact_matches(query, limit) for a query of more than three
\* characters: one call of fast_product_search with search_limit, duplicates
\* removed (there are none in one result)
get_exact_matches(ranked, limit) == fast_product_search(ranked, search_limit(limit))

\* the grouped search of PharmaSearchEngine for a query whose matches, by
\* falling relevance, are `ranked`: every product of the catalog, in the
\* orders of relevance that differ in the product ranked last
RankedLists == {r \in Perms(ProductIds) : \A i \in 1..(Len(r) - 2) : r[i] < r[i + 1]}

GroupedSearchCalls ==
    {[fn |-> "grouped_search", pc |-> "called", ranked |-> r, limit |-> l, offset |-> o,
      ml |-> MLNone, products |-> <<>>, page |-> NoPage] :
        r \in RankedLists, l \in ApiLimits, o \in {0, 1}}

FnInit ==
    /\ EngineIdle
    /\ IndexIdle
    /\ PoolIdle
    /\ proc = NoRun
    /\ fcall \in DbSearchCalls \cup SimilarCalls(TierResults) \cup ThresholdCalls \cup DynamicCalls
                \cup EnhancedCalls \cup BuildCalls \cup HybridCalls(Candidates)
                \cup GroupedSearchCalls

\* _db_search_groups_enhanced up to the call of the grouping stage
DbSearchHandsOver ==
    /\ fcall.fn = "db_search"
    /\ fcall.pc = "called"
    /\ fcall' = [fcall EXCEPT !.pc = "returned",
                              !.handed = handed_product_ids(fcall.query, fcall.exact)]
    /\ UNCHANGED <<gvars, svars, ivars, pvars, proc>>

\* find_similar_products from the results of its three tiers to the return
FindSimilarProducts ==
    /\ fcall.fn = "find_similar"
    /\ fcall.pc = "called"
    /\ fcall' = [fcall EXCEPT !.pc = "returned",
                              !.cutoff = effective_threshold(fcall.query_len, fcall.threshold),
                              !.result = find_similar_products(fcall.exact, fcall.fuzzy,
                                            fcall.semantic, fcall.query_len, fcall.k,
                                            fcall.threshold)]
    /\ UNCHANGED <<gvars, svars, ivars, pvars, proc>>

ShouldGroupDynamically ==
    /\ fcall.fn = "should_group_dynamically"
    /\ fcall.pc = "called"
    /\ fcall' = [fcall EXCEPT !.pc = "returned",
                              !.result = should_group_dynamically(fcall.core1, fcall.core2,
                                             fcall.query, fcall.similarity)]
    /\ UNCHANGED <<gvars, svars, ivars, pvars, proc>>

ShouldGroupEnhanced ==
    /\ fcall.fn = "should_group_enhanced"
    /\ fcall.pc = "called"
    /\ fcall' = [fcall EXCEPT !.pc = "returned",
                              !.result = should_group_enhanced(fcall.identity1,
                                             fcall.identity2, fcall.query, fcall.similarity)]
    /\ UNCHANGED <<gvars, svars, ivars, pvars, proc>>

BuildIndex ==
    /\ fcall.fn = "build_index"
    /\ fcall.pc = "called"
    /\ \A built \in {build_index(fcall.products, fcall.use_cache, fcall.file)} :
          fcall' = [fcall EXCEPT !.pc = "returned", !.product_ids = built.product_ids,
                                 !.product_names = built.product_names]
    /\ UNCHANGED <<gvars, svars, ivars, pvars, proc>>

GroupProductsHybrid ==
    /\ fcall.fn = "group_products_hybrid"
    /\ fcall.pc = "called"
    /\ fcall' = [fcall EXCEPT !.pc = "returned",
                              !.groups_dict = HybridGroupsDict(fcall.products, fcall.ml)]
    /\ UNCHANGED <<gvars, svars, ivars, pvars, proc>>

\* _db_search_groups_enhanced: the exact matches, then _create_dynamic_groups
\* on the rows the database returns for them
GroupedSearch ==
    /\ fcall.fn = "grouped_search"
    /\ fcall.pc = "called"
    /\ \E products \in FetchForGrouping(get_exact_matches(fcall.ranked, fcall.limit), NoFilters) :
          fcall' = [fcall EXCEPT
                       !.pc = "returned",
                       !.products = products,
                       !.page = create_dynamic_groups(products,
                                    get_exact_matches(fcall.ranked, fcall.limit),
                                    fcall.ml, fcall.limit, fcall.offset)]
    /\ UNCHANGED <<gvars, svars, ivars, pvars, proc>>

FnNext ==
    \/ DbSearchHandsOver
    \/ FindSimilarProducts
    \/ ShouldGroupDynamically
    \/ ShouldGroupEnhanced
    \/ BuildIndex
    \/ GroupProductsHybrid
    \/ GroupedSearch

SpecFn == FnInit /\ [][FnNext]_vars

(***************************************************************************)
(* The connection pool of database.py (SpecPool, SpecPoolLive)             *)
(*                                                                         *)
(* One step is what runs between two suspensions of a task.  A lock that   *)
(* is free is taken without suspending and a put on the unbounded queue    *)
(* never suspends, so initialize, close and an execute on an open          *)
(* connection are one step each.                                           *)
(***************************************************************************)

\* connections per pool (pool_size, 5 by default)
PoolSize == 1

\* DuckDBPool objects created in one run
MaxPools == 2

\* DuckDBConnection after connect: handle set, _lock free
OpenConn == [open |-> TRUE, lock |-> "free"]

\* the connections DuckDBPool.initialize creates when `made` exist already
NewConns(made) == [i \in 1..PoolSize |-> made + i]

\* DuckDBPool after initialize: every connection in _connections and queued
NewPool(made) == [connections |-> NewConns(made), available |-> NewConns(made), initialized |-> TRUE]

\* DuckDBConnection.disconnect: the handle is closed and set to None
disconnect(conn) == [conn EXCEPT !.open = FALSE]

\* DuckDBPool.close: disconnects what _connections lists and clears that
\* list; _available and _initialized are left as they are
close(pool) == [pool EXCEPT !.connections = <<>>]

\* the connections after DuckDBPool.close of `pool`
closed_conns(pool, cs) == [c \in DOMAIN cs |-> IF \E i \in DOMAIN pool.connections : pool.connections[i] = c THEN disconnect(cs[c]) ELSE cs[c]]

\* the exit of the body of `async with pool.acquire()`: the finally puts the
\* connection back however the body ended
put_back_on_success(available, conn, exit) == IF exit = "executed" THEN Append(available, conn) ELSE available

put_back(available, conn, exit) == Append(available, conn)

\* get_db_pool, called by connect of a component: creates and initialises
\* the global pool when there is none, and hands out the global pool
GetDbPool(t) ==
    /\ ptasks[t].pc = "new"
    /\ IF db_pool = 0
       THEN /\ Len(pools) < MaxPools
            /\ pools' = Append(pools, NewPool(Len(conns)))
            /\ conns' = conns \o [i \in 1..PoolSize |-> OpenConn]
            /\ db_pool' = Len(pools) + 1
       ELSE UNCHANGED <<pools, conns, db_pool>>
    /\ ptasks' = [ptasks EXCEPT ![t] = [@ EXCEPT !.pc = "connected", !.pool = db_pool']]
    /\ UNCHANGED <<gvars, svars, ivars, fcall, proc>>

\* close_db_pool, called by disconnect of a component: closes the global
\* pool, if any, and forgets it; the other components keep their reference
CloseDbPool(t) ==
    /\ ptasks[t].pc = "connected"
    /\ IF db_pool # 0
       THEN /\ conns' = closed_conns(pools[db_pool], conns)
            /\ pools' = [pools EXCEPT ![db_pool] = close(@)]
            /\ db_pool' = 0
       ELSE UNCHANGED <<pools, conns, db_pool>>
    /\ ptasks' = [ptasks EXCEPT ![t] = [@ EXCEPT !.pc = "new", !.pool = 0]]
    /\ UNCHANGED <<gvars, svars, ivars, fcall, proc>>

\* DuckDBPool.acquire up to the yield: _initialized is set, get waits until
\* the queue holds a connection and takes the first one
Acquire(t) ==
    /\ ptasks[t].pc = "connected"
    /\ pools[ptasks[t].pool].initialized
    /\ pools[ptasks[t].pool].available # <<>>
    /\ LET c == Head(pools[ptasks[t].pool].available)
       IN  /\ pools' = [pools EXCEPT ![ptasks[t].pool].available = Tail(@)]
           /\ ptasks' = [ptasks EXCEPT ![t] = [@ EXCEPT !.pc = "holding", !.conn = c, !.yielded_open = conns[c].open]]
    /\ UNCHANGED <<gvars, svars, ivars, fcall, proc, db_pool, conns>>

\* DuckDBConnection.execute in the body: get_connection takes _lock; with a
\* handle the query runs or raises and the lock is released; with the handle
\* None connect sets the handle and _setup_fts waits for _lock, which
\* get_connection of the same call holds
Execute(t) ==
    /\ ptasks[t].pc = "holding"
    /\ conns[ptasks[t].conn].lock = "free"
    /\ IF conns[ptasks[t].conn].open
       THEN /\ \E outcome \in {"executed", "raised"} :
                  ptasks' = [ptasks EXCEPT ![t] = [@ EXCEPT !.pc = outcome]]
            /\ UNCHANGED conns
       ELSE /\ conns' = [conns EXCEPT ![ptasks[t].conn] = [open |-> TRUE, lock |-> t]]
            /\ ptasks' = [ptasks EXCEPT ![t] = [@ EXCEPT !.pc = "waiting_lock"]]
    /\ UNCHANGED <<gvars, svars, ivars, fcall, proc, pools, db_pool>>

\* the body ends, by return or by the exception of the query
Release(t) ==
    /\ ptasks[t].pc \in {"executed", "raised"}
    /\ pools' = [pools EXCEPT ![ptasks[t].pool].available = put_back(@, ptasks[t].conn, ptasks[t].pc)]
    /\ ptasks' = [ptasks EXCEPT ![t] = [@ EXCEPT !.pc = "connected", !.conn = 0, !.yielded_open = TRUE, !.last = ptasks[t].pc]]
    /\ UNCHANGED <<gvars, svars, ivars, fcall, proc, db_pool, conns>>

\* the task is cancelled while it waits for the lock: CancelledError leaves
\* get_connection, which releases _lock, and then the body
Cancel(t) ==
    /\ ptasks[t].pc = "waiting_lock"
    /\ conns' = [conns EXCEPT ![ptasks[t].conn].lock = "free"]
    /\ pools' = [pools EXCEPT ![ptasks[t].pool].available = put_back(@, ptasks[t].conn, "cancelled")]
    /\ ptasks' = [ptasks EXCEPT ![t] = [@ EXCEPT !.pc = "connected", !.conn = 0, !.yielded_open = TRUE, !.last = "cancelled"]]
    /\ UNCHANGED <<gvars, svars, ivars, fcall, proc, db_pool>>

PoolInit == EngineIdle /\ IndexIdle /\ fcall = NoFn /\ PoolIdle /\ proc = NoRun

PoolNext ==
    \E t \in PoolTasks :
        \/ GetDbPool(t)
        \/ CloseDbPool(t)
        \/ Acquire(t)
        \/ Execute(t)
        \/ Release(t)
        \/ Cancel(t)

SpecPool == PoolInit /\ [][PoolNext]_vars

\* the event loop runs every task that can run; nobody is obliged to
\* cancel a task or to close the pool
PoolFairness ==
    \A t \in PoolTasks :
        /\ WF_vars(Acquire(t))
        /\ WF_vars(Execute(t))
        /\ WF_vars(Release(t))

SpecPoolLive == PoolInit /\ [][PoolNext]_vars /\ PoolFairness

(***************************************************************************)
(* process_products of the two product processors (SpecProc)               *)
(***************************************************************************)

\* products in the table when the run starts
MaxProducts == 3

\* largest batch_size passed to process_products
MaxBatch == 2

\* _fetch_unprocessed_batch: SELECT ... WHERE processedAt IS NULL LIMIT n has
\* no ORDER BY, so any n of the unprocessed rows (all, when there are fewer)
fetch_unprocessed_batch(unprocessed, batch_size) == {b \in SUBSET unprocessed : Cardinality(b) = IF batch_size < Cardinality(unprocessed) THEN batch_size ELSE Cardinality(unprocessed)}

\* the ids of the rows the batch step hands to the save step: the Postgres
\* processor skips a product whose normalisation raised (except ... continue),
\* the DuckDB processor appends it with processedAt only
process_batch(processor, products, raising) == IF processor = "pg" THEN products \ raising ELSE products

\* the save step sets processedAt of every row it is given
save_processed_products(unprocessed, processed_products) == unprocessed \ processed_products

\* process_products up to the loop: total_count is read, processed = 0
ProcInit ==
    /\ EngineIdle
    /\ IndexIdle
    /\ fcall = NoFn
    /\ PoolIdle
    /\ \E n \in 0..MaxProducts, processor \in {"pg", "duck"}, batch_size \in 1..MaxBatch :
          \E raising \in SUBSET (1..n) :
              proc = [pc |-> "loop", processor |-> processor, batch_size |-> batch_size,
                      raising |-> raising, unprocessed |-> 1..n, total_count |-> n,
                      processed |-> 0]

\* one turn of the loop: fetch, process, save, count
ProcessBatch ==
    /\ proc.pc = "loop"
    /\ proc.processed < proc.total_count
    /\ \E products \in fetch_unprocessed_batch(proc.unprocessed, proc.batch_size) :
          /\ products # {}
          /\ proc' = [proc EXCEPT
                 !.unprocessed = save_processed_products(@, process_batch(proc.processor, products, proc.raising)),
                 !.processed = @ + Cardinality(products)]
    /\ UNCHANGED <<gvars, svars, ivars, fcall, pvars>>

\* the loop ends: processed reached total_count, or the fetch came back empty
ProcessReturn ==
    /\ proc.pc = "loop"
    /\ \/ proc.processed >= proc.total_count
       \/ fetch_unprocessed_batch(proc.unprocessed, proc.batch_size) = {{}}
    /\ proc' = [proc EXCEPT !.pc = "returned"]
    /\ UNCHANGED <<gvars, svars, ivars, fcall, pvars>>

ProcNext == ProcessBatch \/ ProcessReturn

SpecProc == ProcInit /\ [][ProcNext]_vars

(***************************************************************************)
(* Properties of search (Spec, SpecCache)                                  *)
(***************************************************************************)
SameRequest(a, b) ==
    /\ a.raw = b.raw
    /\ a.filters = b.filters
    /\ a.limit = b.limit
    /\ a.offset = b.offset
    /\ a.group_results = b.group_results

\* the call executed the query (cache miss) and has returned
Executed(call) == call.pc = "done" /\ ~call.hit

\* C2: with the product data and the ML state fixed, two executions of search
\* with the same (query, filters, limit, offset, mode) that both miss the
\* cache (and meet the same database behaviour) return identical pages, also
\* when matching products have equal prices or equal relevance.
C2_SameRequestSamePage ==
    \A t, u \in Tasks :
        (Executed(calls[t]) /\ Executed(calls[u]) /\ SameRequest(calls[t], calls[u])
            /\ calls[t].db = calls[u].db)
        => calls[t].page = calls[u].page

\* C4: search never serves a cached page whose age is the TTL or more: a
\* lookup that finds an entry of age >= 300 s is a miss and the query is
\* executed again; a page served from the cache is younger than 300 s.
C4_NoStalePageServed ==
    \A t \in Tasks :
        /\ calls[t].hit => (calls[t].found /\ calls[t].age < CacheTTL)
        /\ (calls[t].found /\ calls[t].age >= CacheTTL) =>
              (~calls[t].hit /\ calls[t].pc \in {"searching", "done"})

\* a lookup found an entry of age exactly the TTL, executed the query again
\* and returned
C4_Witness ==
    \E t \in Tasks :
        calls[t].found /\ calls[t].age = CacheTTL /\ Executed(calls[t])

\* C5: the result cache is bounded: between any two steps of the event loop,
\* hence whenever a search call has returned, it holds at most 1000 entries.
C5_CacheBounded == Len(cache) <= CacheCapacity

\* a call stored its result in a cache at capacity, which was cut down to the
\* entries kept, and returned
C5_Witness ==
    \E t \in Tasks : Executed(calls[t]) /\ Len(cache) = CacheKeep

\* C10: search called with a query that is empty after trimming returns an
\* empty page (groups = [], total = 0).
C10_EmptyQueryEmptyPage ==
    \A t \in Tasks :
        (calls[t].pc = "done" /\ calls[t].group_results /\ ~calls[t].hit
            /\ Strip(calls[t].raw) = <<>>)
        => (calls[t].page.groups = <<>> /\ calls[t].page.total = 0)

\* C11: whenever the primary match tier (_get_exact_matches) returns no
\* candidates, for a query of any length, search runs the permissive fallback
\* pass before it gives up: the page an executed call returns is then a page
\* of _fallback_short_query_search for the trimmed, lower-cased query.
C11_FallbackBeforeEmpty ==
    \A t \in Tasks :
        (engine = "pg" /\ Executed(calls[t]) /\ calls[t].group_results
            /\ snapshot.exact = <<>>)
        => calls[t].page \in
              fallback_short_query_search(Strip(Lower(calls[t].raw)), calls[t].filters,
                                          snapshot.ml, calls[t].limit, calls[t].offset)

\* the search_type_used the result dict of call o had when it was stored
StoredTypeUsed(o) ==
    IF engine = "pg" THEN TypeUsedOf(calls[o].page) ELSE "auto"

\* C15: a result page stored in the cache is never modified after insertion:
\* whatever a caller does with the page search returned (the handler of
\* /api/search sets search_type_used on it), a later cache hit for the key
\* returns the page as it was stored.
C15_CachedPageUnchanged ==
    \A t \in Tasks :
        (calls[t].pc = "done" /\ calls[t].hit /\ held[t] \in Tasks)
        => heap[held[t]].search_type_used = StoredTypeUsed(held[t])

\* C12: if building or loading a new ML index fails, the instance installed
\* before the call is still the one get_ml_preprocessor() returns: the global
\* is replaced only after the new instance was initialised successfully.
C12_FailedInitKeepsOld ==
    init.pc = "failed" => ml_preprocessor = init.prev

\* C13: while an index (re)build is in progress, a concurrent reader sees
\* the complete old index or the complete new one, never an empty or partly
\* built one: what get_ml_preprocessor() returns during the build is None or
\* an instance on which initialize has returned.
C13_ReaderSeesCompleteIndex ==
    (reader.pc = "read" /\ reader.during) => reader.built

C16_CandidateCeiling ==
    (fcall.fn = "db_search" /\ fcall.pc = "returned")
    => Len(fcall.handed) <= search_limit(fcall.limit)

\* every hit of the three tiers of the call, in the order they are combined
AllResults == fcall.exact \o fcall.fuzzy \o fcall.semantic

\* C17: the combined result of find_similar_products contains each product
\* id at most once, and the score reported for an id is the maximum score
\* any tier (exact-word, fuzzy, semantic) produced for that id.
C17_MaxScorePerId ==
    (fcall.fn = "find_similar" /\ fcall.pc = "returned")
    => /\ \A i, j \in 1..Len(fcall.result) :
             fcall.result[i].id = fcall.result[j].id => i = j
       /\ \A i \in 1..Len(fcall.result) :
             /\ \E n \in 1..Len(AllResults) : AllResults[n] = fcall.result[i]
             /\ \A n \in 1..Len(AllResults) :
                   AllResults[n].id = fcall.result[i].id
                   => AllResults[n].score <= fcall.result[i].score

\* an id that a tier scored high and a later tier scored lower is in the
\* result
C17_Witness ==
    /\ fcall.fn = "find_similar"
    /\ fcall.pc = "returned"
    /\ \E i \in 1..Len(fcall.result) :
          \E m, n \in 1..Len(AllResults) :
             /\ m < n
             /\ AllResults[m].id = fcall.result[i].id
             /\ AllResults[n].id = fcall.result[i].id
             /\ AllResults[m].score > AllResults[n].score

\* C18: in every returned group the products are in non-decreasing price
\* order, product_count is the number of members and vendor_count the number
\* of distinct vendor ids among the members.
C18_GroupOrderAndCounts ==
    Returned =>
        \A g \in 1..Len(gpage.groups) :
            /\ \A i, j \in 1..Len(gpage.groups[g].products) :
                  i < j => Catalog[gpage.groups[g].products[i]].price
                              <= Catalog[gpage.groups[g].products[j]].price
            /\ gpage.groups[g].product_count = Len(gpage.groups[g].products)
            /\ gpage.groups[g].vendor_count =
                  Cardinality({Catalog[m].vendorId : m \in Members(gpage.groups[g])})

\* the timestamps of the entries of c
Timestamps(c) == {c[i].timestamp : i \in 1..Len(c)}

\* the cache after call t stored its page in this step, before the cleaning
StoredBy(t) ==
    CachePut(cache, CallKey(calls[t], IF engine = "pg" THEN "hybrid" ELSE "auto"),
             calls'[t].page, now)

\* C19: when a store exceeds the capacity bound, the entries evicted are the
\* oldest by insertion time: no entry that survives has an older timestamp
\* than an entry removed, also when entries were stored again after they had
\* expired, and the entry just stored survives.
C19_EvictsOldest ==
    [][\A t \in Tasks :
        (calls[t].pc = "searching" /\ calls'[t].pc = "done")
        => /\ \A evicted \in {evicted_entries(StoredBy(t))} :
                 \A old \in Timestamps(evicted) :
                    \A kept \in Timestamps(cache') : kept >= old
           /\ InCache(cache', CallKey(calls[t], IF engine = "pg" THEN "hybrid" ELSE "auto"))]_vars

(***************************************************************************)
(* Properties of the grouping decisions (SpecFn)                           *)
(***************************************************************************)
\* the grouping decision of call under query at similarity s
MergesAt(call, query, s) ==
    IF call.fn = "should_group_dynamically"
    THEN should_group_dynamically(call.core1, call.core2, query, s)
    ELSE should_group_enhanced(call.identity1, call.identity2, query, s)

\* the least similarity, in percent, at which the two products of call are
\* merged under query; 101 when no similarity merges them
MinToMerge(call, query) ==
    IF \A s \in 0..100 : ~MergesAt(call, query, s) THEN 101
    ELSE CHOOSE s \in 0..100 :
            /\ MergesAt(call, query, s)
            /\ \A lower \in 0..(s - 1) : ~MergesAt(call, query, lower)

\* a grouping decision has returned
GroupingReturned ==
    /\ fcall.fn \in {"should_group_dynamically", "should_group_enhanced"}
    /\ fcall.pc = "returned"

\* C20: in the grouping decision, the least core-name similarity that merges
\* two products under a single-word query is strictly higher than the least
\* similarity that merges the same two products under a multi-word query,
\* wherever the decision rests on the similarity under both queries.
C20_SingleWordStricter ==
    (/\ GroupingReturned
     /\ Len(Words(fcall.query)) = 1
     /\ MinToMerge(fcall, fcall.query) \in 1..100)
    => \A query \in GroupingQueries :
          (Len(Words(query)) > 1 /\ MinToMerge(fcall, query) \in 1..100)
          => MinToMerge(fcall, fcall.query) > MinToMerge(fcall, query)

(***************************************************************************)
(* Properties of SimilarityMatcher.find_similar_products (SpecFn)          *)
(***************************************************************************)
\* C21: the score cutoff of find_similar_products never increases as the
\* query gets shorter: for every caller threshold in [0, 1], the cutoff
\* applied to a query is at most the cutoff applied to any longer query.
C21_CutoffMonotone ==
    (fcall.fn = "find_similar" /\ fcall.pc = "returned")
    => \A longer \in (fcall.query_len + 1)..7 :
          fcall.cutoff <= effective_threshold(longer, fcall.threshold)

(***************************************************************************)
(* Properties of the grouping stage without ML clusters (SpecGroup)        *)
(***************************************************************************)
\* get_ml_preprocessor() is None, or get_ml_clusters raised or returned no
\* cluster, in the call of the grouping stage
NoClusters ==
    \/ ~gcall.ml.loaded
    \/ clustering_raises(gcall.ml, gcall.product_ids)
    \/ get_ml_clusters(gcall.ml, gcall.product_ids) = <<>>

IsGroupsPage(page) == "groups" \in DOMAIN page
IsProductsPage(page) == "products" \in DOMAIN page

\* C23: a page returned by search has the shape requested by group_results,
\* also when it is served from the cache: a call with group_results=False
\* gets a page of products, a call with group_results=True a page of groups.
C23_PageShapeAsRequested ==
    \A t \in Tasks :
        calls[t].pc \in {"done", "returned"}
        => IF calls[t].group_results
           THEN IsGroupsPage(calls[t].page)
           ELSE IsProductsPage(calls[t].page)

(***************************************************************************)
(* Properties of the connection pool (SpecPool, SpecPoolLive)              *)
(***************************************************************************)

\* the task is inside the body of `async with pool.acquire()`
InBody(t) == ptasks[t].pc \in {"holding", "waiting_lock", "executed", "raised"}

\* how often the queue of pool p holds connection c
Queued(p, c) == Cardinality({i \in DOMAIN pools[p].available : pools[p].available[i] = c})

\* the acquirers that hold connection c
Holders(c) == {t \in PoolTasks : InBody(t) /\ ptasks[t].conn = c}

\* the connections pool p created
PoolConns(p) == {(p - 1) * PoolSize + i : i \in 1..PoolSize}

\* C24: an execute on a connection whose handle is None completes: the task
\* that is about to call it gets its rows or an exception (the query's, or
\* CancelledError), and does not wait for ever for the lock of its own
\* connection
C24_ExecuteCompletes ==
    \A t \in PoolTasks :
        (ptasks[t].pc = "holding" /\ ~conns[ptasks[t].conn].open)
        ~> (ptasks[t].pc \notin {"holding", "waiting_lock"})

\* C25: the connection acquire yields is connected, also after another
\* component closed the global pool
C25_YieldedConnected ==
    \A t \in PoolTasks : ptasks[t].pc = "holding" => ptasks[t].yielded_open

\* C29: every connection of a pool is, at any moment, either in the queue of
\* its pool once or held by exactly one acquirer, whether the bodies ended
\* by return, by an exception or by cancellation
C29_QueuedOrHeldOnce ==
    \A p \in DOMAIN pools :
        /\ \A c \in PoolConns(p) : Queued(p, c) + Cardinality(Holders(c)) = 1
        /\ \A q \in DOMAIN pools \ {p} : \A c \in PoolConns(p) : Queued(q, c) = 0

\* a body ended by cancellation, its connection is back in the queue, and
\* the other task, whose last body ended by an exception, holds one again
C29_Witness ==
    /\ \E t \in PoolTasks : ptasks[t].pc = "connected" /\ ptasks[t].last = "cancelled"
    /\ \E t \in PoolTasks : InBody(t) /\ ptasks[t].last = "raised"

(***************************************************************************)
(* Properties of process_products (SpecProc)                               *)
(***************************************************************************)

\* C28: when process_products returns, no product has processedAt NULL, also
\* when normalising some of the products raised
C28_AllProcessed ==
    proc.pc = "returned" => proc.unprocessed = {}

(***************************************************************************)
(* Properties of SimilarityMatcher.build_index (SpecFn)                    *)
(***************************************************************************)

\* C27: after build_index(products, use_cache=True) the matcher describes
\* the given products: its ids are the ids of the products and the name at
\* each position is the current normalised name of that product, also when
\* a cached index was found on disk
C27_IndexDescribesProducts ==
    (fcall.fn = "build_index" /\ fcall.pc = "returned" /\ fcall.use_cache)
    => /\ fcall.product_ids = IdsOf(fcall.products)
       /\ fcall.product_names = NamesOf(fcall.products)

(***************************************************************************)
(* Properties of the hybrid grouping (SpecFn)                              *)
(***************************************************************************)

\* C30: in the hybrid grouping two candidates with the same non-empty
\* grouping key end up in the same group, whatever the order of the
\* candidates and whatever the ML similarity answers
C30_SameKeySameGroup ==
    (fcall.fn = "group_products_hybrid" /\ fcall.pc = "returned")
    => \A a \in Range(fcall.products), b \in Range(fcall.products) :
          (KeyOf[a] # <<>> /\ KeyOf[a] = KeyOf[b])
          => \E g \in DOMAIN fcall.groups_dict :
                {a, b} \subseteq Range(fcall.groups_dict[g].items)

(***************************************************************************)
(* Properties of the paging of the grouped search (SpecFn)                 *)
(***************************************************************************)

\* C26: for a fixed query, filters and data the total of the grouped search
\* does not depend on limit or offset: the total is the length of one and
\* the same group list, of which each page is a slice, so the call with any
\* other limit and offset reports the total this call reported
C26_TotalIndependentOfPaging ==
    (fcall.fn = "grouped_search" /\ fcall.pc = "returned")
    => \A l \in ApiLimits, o \in {0, 1} :
          \A products \in FetchForGrouping(get_exact_matches(fcall.ranked, l), NoFilters) :
              create_dynamic_groups(products, get_exact_matches(fcall.ranked, l),
                                    fcall.ml, l, o).total = fcall.page.total


====
